---- MODULE Spec2Model ----
(***************************************************************************)
(* A model of the time-series core of rpi_server_cockpit: the SQLite       *)
(* backed Store (src/timeseries/db.py, src/timeseries_db.py), its ingest   *)
(* route (src/timeseries/routes.py), the maintenance tool                  *)
(* (src/scripts/db_doctor.py) and the gateway client                       *)
(* (src/remote_sensor_client.py).                                          *)
(***************************************************************************)
EXTENDS Integers, Sequences, FiniteSets, TLC

(***************************************************************************)
(* Bounds of the model.                                                    *)
(***************************************************************************)
\* timestamps are 1..MaxTs
MaxTs == 2
\* longest list of datapoints handed to a batch operation
MaxBatch == 2
\* most rows the table timeseries_data holds
MaxRows == 2

(***************************************************************************)
(* Values.  A Python value handed to the Store is None, a number or        *)
(* something float() cannot convert; a stored SQL value is NULL or a       *)
(* number.  Optional values are sequences: << >> is None / NULL and <<x>>  *)
(* is the number x.                                                        *)
(***************************************************************************)
NULL == << >>

Num(x) == <<x>>

\* a value float() raises TypeError / ValueError on, e.g. the string "abc"
Unconvertible == <<0, 0>>

\* an int beyond the range of a float: float(value) raises OverflowError
TooLarge == <<0, 1>>

Numbers == {10, 12}

PyValues == {NULL, Unconvertible, TooLarge} \cup {Num(x) : x \in Numbers}

SqlValues == {NULL} \cup {Num(x) : x \in Numbers}

Timestamps == 1..MaxTs

\* the ids of the series defined in code (TIMESERIES_MAP)
BuiltinIds == {"cpu_temperature"}

\* ids that are not built in
ExternalIds == {"garage_temp"}

\* the ids of the sensors that gateways report
SensorIds == {"patio_temp", "attic_temp"}

SeriesIds == BuiltinIds \cup ExternalIds

\* the marker of a key that a dict does not hold
NoKey == "<missing>"

VARIABLES
  timeseries_data,      \* table timeseries_data: a set of rows
  external_timeseries,  \* table external_timeseries: a set of metadata rows
  timeseries_settings,  \* table timeseries_settings: key -> value
  ret,                  \* what the most recent Store / route call returned
  write_lock,           \* per Store object: the thread that holds its lock
  pc,                   \* per thread / process: where it is in its call
  op,                   \* per thread: the Store call it is running
  engine_writer,        \* who holds the database file's write transaction
  attempt,              \* the maintenance tool's retry wrapper: attempt
  collector,            \* TimeseriesCollector: its fields running and thread
  loops,                \* per collection thread: its position and locals
  automation_state,     \* app_state.automation_state: name -> entry
  runs,                 \* per run request: its position and its automation
  running,              \* GatewayConnection._running
  socket,               \* GatewayConnection._socket
  gw_pc,                \* where the connection thread is in _run
  epoch_log,            \* what the gateway and the callbacks saw this epoch
  discoveries,          \* discovery round trips completed so far
  last_recv,            \* what the thread's most recent receive returned
  exc,                  \* the exception that ended the epoch, until finally
  slept,                \* seconds the thread's latest reconnect wait lasted
  _timeseries,          \* RemoteSensorManager._timeseries: id -> holder
  TIMESERIES,           \* timeseries_config.TIMESERIES: the list of series
  _lock                 \* per manager / holder: the thread holding its _lock

\* the tables of the database file
tableVars == <<timeseries_data, external_timeseries, timeseries_settings>>

\* the collector object and the threads that run its loop
collectorVars == <<collector, loops>>

\* the automations' entries and the run requests
automationVars == <<automation_state, runs>>

\* the background workers of the dashboard process
workerVars == <<collectorVars, automationVars>>

\* the threads' positions, the locks and the engine's write transaction
lockVars == <<write_lock, pc, op, engine_writer, attempt, workerVars>>

\* the gateway manager's registry of remote sensors and its locks
managerVars == <<_timeseries, TIMESERIES, _lock>>

\* the gateway connection, its thread and what was observed of it, and the
\* manager its callbacks belong to
connVars ==
  <<running, socket, gw_pc, epoch_log, discoveries, last_recv, exc, slept>>

gatewayVars == <<connVars, managerVars>>

\* what a call of the one-call-at-a-time specifications leaves alone
callFrame == <<timeseries_settings, lockVars, gatewayVars>>

(***************************************************************************)
(* The table timeseries_data.                                              *)
(***************************************************************************)
Row(sid, ts, v) == [timeseries_id |-> sid, timestamp |-> ts, value |-> v]

\* the rows that collide with (sid, ts) under UNIQUE(timeseries_id, timestamp)
Conflicting(table, sid, ts) ==
  {r \in table : r.timeseries_id = sid /\ r.timestamp = ts}

\* INSERT without conflict handling that the engine does not refuse
InsertKeepingOld(table, sid, ts, v) == table \cup {Row(sid, ts, v)}

\* INSERT OR REPLACE INTO timeseries_data: the colliding row is deleted, the
\* new row is inserted
InsertOrReplace(table, sid, ts, v) ==
  (table \ Conflicting(table, sid, ts)) \cup {Row(sid, ts, v)}

\* float(value) with TypeError / ValueError mapped to None
FloatValue(v) == IF v = NULL \/ v = Unconvertible THEN NULL ELSE v

\* float(value) raises an exception that the except clause does not name
FloatRaises(v) == v = TooLarge

\* an optional timestamp argument: None or a number
OptTimestamps == {NULL} \cup {<<t>> : t \in Timestamps}

\* insert_datapoint: the table after the call; now is datetime.now()
insert_datapoint(table, sid, value, timestamp, now) ==
  LET ts == IF timestamp = NULL THEN now ELSE timestamp[1]
  IN  IF FloatRaises(value) THEN table
      ELSE InsertOrReplace(table, sid, ts, FloatValue(value))

(***************************************************************************)
(* insert_datapoints_batch.  A datapoint is a dict: a function whose       *)
(* domain holds the keys it has.  The loop runs inside one transaction on  *)
(* one connection; an exception leaves the loop before conn.commit(), and  *)
(* conn.close() then discards what the transaction wrote.                  *)
(***************************************************************************)
\* dp['timeseries_id'] or dp['value'] raises KeyError
RaisesKeyError(dp) ==
  "timeseries_id" \notin DOMAIN dp \/ "value" \notin DOMAIN dp

\* dp.get('timestamp', datetime.now().timestamp())
DpTimestamp(dp, now) ==
  IF "timestamp" \in DOMAIN dp THEN dp["timestamp"] ELSE <<now>>

\* timestamp REAL NOT NULL: the engine refuses the row (IntegrityError)
EngineRejects(ts) == ts = NULL

\* one iteration of the loop over the datapoints
DpFails(dp, now) ==
  \/ RaisesKeyError(dp)
  \/ FloatRaises(dp["value"])
  \/ EngineRejects(DpTimestamp(dp, now))

\* the uncommitted table after the loop has run over dps[i..], and whether
\* an iteration raised; nows[i] is the clock read in iteration i
RECURSIVE BatchLoop(_, _, _, _)
BatchLoop(txn, dps, nows, i) ==
  IF i > Len(dps) THEN [raised |-> FALSE, table |-> txn, done |-> Len(dps)]
  ELSE IF DpFails(dps[i], nows[i])
       THEN [raised |-> TRUE, table |-> txn, done |-> i - 1]
       ELSE BatchLoop(
              InsertOrReplace(txn, dps[i]["timeseries_id"],
                              DpTimestamp(dps[i], nows[i])[1],
                              FloatValue(dps[i]["value"])),
              dps, nows, i + 1)

\* what the connection leaves in the table when the loop raised: every
\* statement committed on its own (autocommit)
CommitPartial(before, loop) == loop.table

\* what the connection leaves in the table: the loop's rows after
\* conn.commit(), the table as it was when the loop raised
CommitOrDiscard(before, loop) ==
  IF loop.raised THEN before ELSE loop.table

\* DELETE FROM timeseries_data WHERE timeseries_id = ? AND timestamp < ?
delete_old_data(table, sid, older_than) ==
  {r \in table : ~(r.timeseries_id = sid /\ r.timestamp < older_than)}

(***************************************************************************)
(* query_range without max_points.                                         *)
(***************************************************************************)
\* WHERE timeseries_id = ? AND timestamp >= ? AND timestamp < ?
SelectHalfOpen(table, sid, start_time, end_time) ==
  {r \in table : /\ r.timeseries_id = sid
                 /\ r.timestamp >= start_time
                 /\ r.timestamp < end_time}

\* WHERE timeseries_id = ? AND timestamp >= ? AND timestamp <= ?
SelectRange(table, sid, start_time, end_time) ==
  {r \in table : /\ r.timeseries_id = sid
                 /\ r.timestamp >= start_time
                 /\ r.timestamp <= end_time}

\* ORDER BY timestamp ASC
RECURSIVE OrderByTimestampAsc(_)
OrderByTimestampAsc(rows) ==
  IF rows = {} THEN << >>
  ELSE LET first == CHOOSE r \in rows :
                      \A q \in rows : r.timestamp <= q.timestamp
       IN  <<first>> \o OrderByTimestampAsc(rows \ {first})

\* {'timestamp': row['timestamp'], 'value': row['value']}
Point(r) == [timestamp |-> r.timestamp, value |-> r.value]

\* [Point(row) for row in cursor.fetchall()]
Points(rows) == [i \in 1..Len(rows) |-> Point(rows[i])]

query_range(table, sid, start_time, end_time) ==
  Points(OrderByTimestampAsc(SelectRange(table, sid, start_time, end_time)))

(***************************************************************************)
(* The Store's sample operations as calls: each action is one call, run    *)
(* to its return.  ret holds what the call was and what it returned.       *)
(***************************************************************************)
\* the datapoints a batch is built from: a row, a row without timestamp
\* (stored at the clock's reading, which may be the first row's timestamp)
\* and a dict without timeseries_id
BatchDps ==
  {[timeseries_id |-> "garage_temp", value |-> Num(12), timestamp |-> <<1>>],
   [timeseries_id |-> "garage_temp", value |-> Unconvertible],
   [value |-> Num(10), timestamp |-> <<1>>]}

SeqsUpTo(S, n) == UNION {[1..k -> S] : k \in 0..n}

Batches == SeqsUpTo(BatchDps, MaxBatch)

\* the readings of the clock that a call can see: one when no datapoint of
\* the batch needs the clock
ClockReads(dps) ==
  IF \E i \in 1..Len(dps) : "timestamp" \notin DOMAIN dps[i]
  THEN Timestamps ELSE {1}

\* the rows a batch asks for, the last datapoint at a key standing for the key
BatchRows(dps, nows) ==
  LET key(i) == <<dps[i]["timeseries_id"], DpTimestamp(dps[i], nows[i])[1]>>
  IN  {Row(key(i)[1], key(i)[2], FloatValue(dps[i]["value"])) :
         i \in {j \in 1..Len(dps) :
                  \A k \in (j + 1)..Len(dps) : key(k) # key(j)}}

\* bounds of a range query: the timestamps and one value on either side
QueryBounds == 0..(MaxTs + 1)

\* the model holds at most MaxRows sample rows
WithinRows(table) == Cardinality(table) <= MaxRows

\* the tables after _init_db on a new file
InitTables ==
  /\ timeseries_data = {}
  /\ external_timeseries = {}
  /\ timeseries_settings = [sampling_rate_ms |-> "5000"]

InitStore ==
  /\ InitTables
  /\ ret = [op |-> "init"]

InsertCall(sid, value, timestamp, now) ==
  LET ts == IF timestamp = NULL THEN now ELSE timestamp[1]
  IN  /\ timeseries_data' =
           insert_datapoint(timeseries_data, sid, value, timestamp, now)
      /\ WithinRows(timeseries_data')
      /\ ret' = IF FloatRaises(value)
                THEN [op |-> "insert_datapoint", raised |-> TRUE]
                ELSE [op |-> "insert_datapoint", raised |-> FALSE,
                      row |-> Row(sid, ts, FloatValue(value)),
                      replaced |-> Conflicting(timeseries_data, sid, ts)]
      /\ UNCHANGED <<external_timeseries, callFrame>>

Insert ==
  \E sid \in SeriesIds, value \in PyValues, timestamp \in OptTimestamps :
    \E now \in (IF timestamp = NULL THEN Timestamps ELSE {1}) :
      InsertCall(sid, value, timestamp, now)

InsertBatch ==
  \E dps \in Batches :
    \E now \in ClockReads(dps) :
      LET nows == [i \in 1..Len(dps) |-> now]
          loop == BatchLoop(timeseries_data, dps, nows, 1)
      IN  /\ timeseries_data' = CommitOrDiscard(timeseries_data, loop)
          /\ WithinRows(timeseries_data')
          /\ ret' = [op |-> "insert_datapoints_batch",
                     raised |-> loop.raised, done |-> loop.done,
                     rows |-> IF loop.raised THEN {}
                              ELSE BatchRows(dps, nows)]
          /\ UNCHANGED <<external_timeseries, callFrame>>

DeleteOldData ==
  \E sid \in SeriesIds, older_than \in QueryBounds :
    /\ timeseries_data' = delete_old_data(timeseries_data, sid, older_than)
    /\ ret' = [op |-> "delete_old_data"]
    /\ UNCHANGED <<external_timeseries, callFrame>>

QueryRange ==
  \E sid \in SeriesIds, start_time \in QueryBounds, end_time \in QueryBounds :
    /\ ret' = [op |-> "query_range", timeseries_id |-> sid,
               start_time |-> start_time, end_time |-> end_time,
               data |-> query_range(timeseries_data, sid, start_time, end_time)]
    /\ UNCHANGED <<timeseries_data, external_timeseries, callFrame>>

(***************************************************************************)
(* The table external_timeseries.                                          *)
(***************************************************************************)
\* json.dumps(tags) as stored in the column tags, and json.loads of it
JsonDumps(x) == <<"json", x>>

JsonLoads(text) == text[2]

\* one row of external_timeseries as the INSERT of register_external_timeseries
\* writes it
MetaRow(id, name, units, category, tags, description, gateway) ==
  [id |-> id, name |-> name, units |-> units, category |-> category,
   tags |-> JsonDumps(tags), description |-> description, gateway |-> gateway]

\* SELECT id FROM external_timeseries WHERE id = ?
Existed(table, id) == \E r \in table : r.id = id

\* INSERT OR REPLACE INTO external_timeseries: id is the primary key
\* a plain INSERT without the primary key: the row is added to those stored
AppendDescriptor(table, row) == table \cup {row}

register_external_timeseries(table, row) ==
  {r \in table : r.id # row.id} \cup {row}

\* DELETE FROM external_timeseries, without the WHERE clause
DeleteEveryDescriptor(table, id) == {}

\* DELETE FROM external_timeseries WHERE id = ?
delete_external_timeseries(table, id) == {r \in table : r.id # id}

\* INSERT OR REPLACE INTO timeseries_settings (key, value): str(value)
set_setting(settings, key, value) == [settings EXCEPT ![key] = value]

(***************************************************************************)
(* Threads of the dashboard process that call a Store object, and the      *)
(* maintenance tool, which is a process of its own with its own            *)
(* connection to the database file.  There are two Store classes: the one  *)
(* of the package timeseries (lock attribute write_lock) and the one of    *)
(* the module timeseries_db (lock attribute lock); each module-level       *)
(* instance opens the file timeseries.db.                                   *)
(***************************************************************************)
PackageStore == "timeseries/db.py"

LegacyStore == "timeseries_db.py"

Stores == {PackageStore, LegacyStore}

Threads == {"collector", "gateway", "api"}

Doctor == "db_doctor"

Procs == Threads \cup {Doctor}

Free == "free"

\* MAX_RETRIES of the maintenance tool
MAX_RETRIES == 5

WriteMethods ==
  {"insert_datapoint", "insert_datapoints_batch", "delete_old_data",
   "set_setting", "register_external_timeseries",
   "delete_external_timeseries"}

ReadMethods == {"query_range", "query_latest"}

StoreCall(method, store) == [method |-> method, store |-> store]

NoCall == StoreCall("none", PackageStore)

\* the Store calls each thread makes, on the Store object its module imports:
\* the collector and the routes of the package use the package's instance,
\* gateway ingestion takes its instance from timeseries_routes, and a
\* request thread serves the write routes of the package and the query
\* routes of either route module
CallsOf(t) ==
  CASE t = "collector" -> {StoreCall("insert_datapoints_batch", PackageStore)}
    [] t = "gateway"   -> {StoreCall("insert_datapoints_batch", LegacyStore)}
    [] t = "api"       ->
         {StoreCall(m, PackageStore) :
            m \in {"register_external_timeseries", "insert_datapoint",
                   "set_setting", "delete_external_timeseries",
                   "delete_old_data"}}
         \cup {StoreCall(m, s) : m \in ReadMethods, s \in Stores}

\* whether the method's body is inside "with self.write_lock" / "with
\* self.lock": every write method, and the read methods of timeseries_db
TakesLock(call) ==
  call.method \in WriteMethods \/ call.store = LegacyStore

\* threading.Lock.acquire proceeds without regard to the holder
LockIgnored(store) == TRUE

\* threading.Lock.acquire proceeds only when nobody holds the lock
LockFree(store) == write_lock[store] = Free

\* the batch the collector writes: one value, stamped by the Store
CollectorBatch == <<[timeseries_id |-> "cpu_temperature", value |-> Num(10)]>>

\* the batch gateway ingestion writes: one reading with its source timestamp
GatewayBatch ==
  <<[timeseries_id |-> "garage_temp", value |-> Num(12), timestamp |-> <<1>>]>>

\* the descriptor the API registers
ApiDescriptor ==
  MetaRow("garage_temp", "Garage", "F", "External", << >>, "", NULL)

\* the sensors the maintenance tool is asked to clear
ClearNames == {"garage_temp"}

\* the Thread objects that start() can create
MaxLoops == 2

LoopThreads == 1..MaxLoops

\* TimeseriesCollector.__init__, no thread created yet
InitCollector ==
  /\ collector = [running |-> FALSE, thread |-> NULL]
  /\ loops = [t \in LoopThreads |->
                [pc |-> "new", sampling_rate_seconds |-> NULL]]

\* the run requests that can be in progress at once
MaxRequests == 2

RunRequests == 1..MaxRequests

\* the automations of the configuration (get_all_automations)
Automations == {"backup", "update"}

\* app_state.automation_state as the module defines it, and no request yet
InitAutomation ==
  /\ automation_state =
       [name \in Automations |->
          [job_id |-> NULL, running |-> FALSE, output |-> << >>,
           return_code |-> NULL, process |-> NULL, completed_at |-> NULL]]
  /\ runs = [r \in RunRequests |-> [pc |-> "idle", automation_name |-> ""]]

InitLock ==
  /\ write_lock = [s \in Stores |-> Free]
  /\ pc = [p \in Procs |-> "idle"]
  /\ op = [t \in Threads |-> NoCall]
  /\ engine_writer = Free
  /\ attempt = 0
  /\ InitCollector
  /\ InitAutomation

(***************************************************************************)
(* A Store call of a thread, step by step: the thread arrives at the       *)
(* with-statement, acquires the lock, runs its statement on a fresh        *)
(* connection (which needs the file's write transaction), commits, closes  *)
(* the connection and leaves the with-statement.                           *)
(***************************************************************************)
Call(t) ==
  /\ pc[t] = "idle"
  /\ \E call \in CallsOf(t) :
       /\ op' = [op EXCEPT ![t] = call]
       /\ pc' = [pc EXCEPT ![t] = IF TakesLock(call) THEN "acquire"
                                  ELSE "reading"]
  /\ UNCHANGED <<tableVars, ret, gatewayVars, write_lock, engine_writer,
                 attempt, workerVars>>

\* with self.write_lock: the thread waits while another thread holds it
Acquire(t) ==
  /\ pc[t] = "acquire"
  /\ LockFree(op[t].store)
  /\ write_lock' = [write_lock EXCEPT ![op[t].store] = t]
  /\ pc' = [pc EXCEPT ![t] = "section"]
  /\ UNCHANGED <<tableVars, ret, gatewayVars, op, engine_writer, attempt,
                 workerVars>>

\* the first writing statement of the call takes the write transaction
Begin(t) ==
  /\ pc[t] = "section"
  /\ op[t].method \in WriteMethods
  /\ engine_writer = Free
  /\ engine_writer' = t
  /\ pc' = [pc EXCEPT ![t] = "txn"]
  /\ UNCHANGED <<tableVars, ret, gatewayVars, write_lock, op, attempt,
                 workerVars>>

\* another connection holds the write transaction for longer than the
\* connection's timeout: sqlite3.OperationalError, nothing is committed
Locked(t) ==
  /\ pc[t] = "section"
  /\ op[t].method \in WriteMethods
  /\ engine_writer # Free
  /\ pc' = [pc EXCEPT ![t] = "release"]
  /\ UNCHANGED <<tableVars, ret, gatewayVars, write_lock, op, engine_writer,
                 attempt, workerVars>>

\* the tables after conn.commit() of the call that thread t is running
Committed(t, now) ==
  LET m == op[t].method
      dps == IF t = "collector" THEN CollectorBatch ELSE GatewayBatch
      nows == [i \in 1..Len(dps) |-> now]
      same == [data |-> timeseries_data, meta |-> external_timeseries,
               settings |-> timeseries_settings]
  IN  CASE m = "insert_datapoints_batch" ->
             [same EXCEPT !.data =
                CommitOrDiscard(timeseries_data,
                                BatchLoop(timeseries_data, dps, nows, 1))]
        [] m = "insert_datapoint" ->
             [same EXCEPT !.data =
                insert_datapoint(timeseries_data, "garage_temp", Num(10),
                                 <<1>>, now)]
        [] m = "delete_old_data" ->
             [same EXCEPT !.data =
                delete_old_data(timeseries_data, "garage_temp", MaxTs + 1)]
        [] m = "set_setting" ->
             [same EXCEPT !.settings =
                set_setting(timeseries_settings, "sampling_rate_ms", "1000")]
        [] m = "register_external_timeseries" ->
             [same EXCEPT !.meta =
                register_external_timeseries(external_timeseries,
                                             ApiDescriptor)]
        [] m = "delete_external_timeseries" ->
             [same EXCEPT !.meta =
                delete_external_timeseries(external_timeseries,
                                           "garage_temp")]

Commit(t) ==
  /\ pc[t] = "txn"
  /\ \E now \in (IF t = "collector" THEN Timestamps ELSE {1}) :
       LET after == Committed(t, now)
       IN  /\ timeseries_data' = after.data
           /\ external_timeseries' = after.meta
           /\ timeseries_settings' = after.settings
  /\ engine_writer' = Free
  /\ pc' = [pc EXCEPT ![t] = "release"]
  /\ UNCHANGED <<ret, gatewayVars, write_lock, op, attempt, workerVars>>

\* a read method of timeseries_db: the SELECT runs with the lock held
ReadUnderLock(t) ==
  /\ pc[t] = "section"
  /\ op[t].method \in ReadMethods
  /\ pc' = [pc EXCEPT ![t] = "release"]
  /\ UNCHANGED <<tableVars, ret, gatewayVars, write_lock, op, engine_writer,
                 attempt, workerVars>>

\* finally: conn.close(), and the with-statement releases the lock
Release(t) ==
  /\ pc[t] = "release"
  /\ write_lock' = [write_lock EXCEPT ![op[t].store] = Free]
  /\ pc' = [pc EXCEPT ![t] = "idle"]
  /\ op' = [op EXCEPT ![t] = NoCall]
  /\ UNCHANGED <<tableVars, ret, gatewayVars, engine_writer, attempt,
                 workerVars>>

\* a read method of the package's Store: no lock around the SELECT
Read(t) ==
  /\ pc[t] = "reading"
  /\ pc' = [pc EXCEPT ![t] = "idle"]
  /\ op' = [op EXCEPT ![t] = NoCall]
  /\ UNCHANGED <<tableVars, ret, gatewayVars, write_lock, engine_writer,
                 attempt, workerVars>>

(***************************************************************************)
(* The maintenance tool's bulk delete (action_clear under retry_on_locked) *)
(* in its own process: it counts, asks for confirmation, deletes the       *)
(* sensors' samples and metadata in one transaction and commits.  It       *)
(* never touches a lock of the dashboard process.                          *)
(***************************************************************************)
\* the wrapper's first attempt: connect, count the rows, ask
DoctorStart ==
  /\ pc[Doctor] = "idle"
  /\ attempt' = 1
  /\ pc' = [pc EXCEPT ![Doctor] = "confirm"]
  /\ UNCHANGED <<tableVars, ret, gatewayVars, write_lock, op, engine_writer,
                 workerVars>>

\* input("Proceed with deletion? [y/N] ")
DoctorAnswer ==
  /\ pc[Doctor] = "confirm"
  /\ \E answer \in {"y", "n"} :
       IF answer = "y"
       THEN pc' = [pc EXCEPT ![Doctor] = "delete"] /\ UNCHANGED attempt
       ELSE pc' = [pc EXCEPT ![Doctor] = "idle"] /\ attempt' = 0
  /\ UNCHANGED <<tableVars, ret, gatewayVars, write_lock, op, engine_writer,
                 workerVars>>

\* the first DELETE takes the file's write transaction
DoctorDelete ==
  /\ pc[Doctor] = "delete"
  /\ engine_writer = Free
  /\ engine_writer' = Doctor
  /\ pc' = [pc EXCEPT ![Doctor] = "txn"]
  /\ UNCHANGED <<tableVars, ret, gatewayVars, write_lock, op, attempt,
                 workerVars>>

\* 'database is locked': the wrapper sleeps and runs the function again,
\* or re-raises on the last attempt
DoctorLocked ==
  /\ pc[Doctor] = "delete"
  /\ engine_writer # Free
  /\ IF attempt < MAX_RETRIES
     THEN attempt' = attempt + 1 /\ pc' = [pc EXCEPT ![Doctor] = "confirm"]
     ELSE attempt' = 0 /\ pc' = [pc EXCEPT ![Doctor] = "idle"]
  /\ UNCHANGED <<tableVars, ret, gatewayVars, write_lock, op, engine_writer,
                 workerVars>>

\* DELETE FROM timeseries_data WHERE timeseries_id = ? and DELETE FROM
\* external_timeseries WHERE id = ?, for each name; conn.commit()
DoctorCommit ==
  /\ pc[Doctor] = "txn"
  /\ timeseries_data' =
       {r \in timeseries_data : r.timeseries_id \notin ClearNames}
  /\ external_timeseries' =
       {r \in external_timeseries : r.id \notin ClearNames}
  /\ engine_writer' = Free
  /\ attempt' = 0
  /\ pc' = [pc EXCEPT ![Doctor] = "idle"]
  /\ UNCHANGED <<timeseries_settings, ret, gatewayVars, write_lock, op,
                 workerVars>>

(***************************************************************************)
(* The ingest route (POST /api/timeseries/ingest) and the Store's          *)
(* registration calls, one call per action.  A request body and a          *)
(* datapoint are dicts: functions whose domain holds the keys they have.   *)
(***************************************************************************)
\* get_timeseries(id): the built-in series of that id, if there is one
IsBuiltin(id) == id \in BuiltinIds

\* d.get(key, default)
DictGet(d, key, default) == IF key \in DOMAIN d THEN d[key] ELSE default

\* the datapoints ingest requests are built from: a complete one, one without
\* value, one under a built-in id, and a complete one without timestamp that
\* names its gateway
IngestDps ==
  {[id |-> "garage_temp", name |-> "Garage", units |-> "F",
    value |-> Num(12), timestamp |-> <<1>>],
   [id |-> "garage_temp", name |-> "Garage door", units |-> "F"],
   [id |-> "cpu_temperature", name |-> "Shadow", units |-> "C",
    value |-> Num(10), timestamp |-> <<1>>],
   [id |-> "garage_temp", name |-> "Garage", units |-> "F",
    value |-> Num(10), gateway |-> <<"patio_gateway">>]}

\* the bodies of the batch form: a list of datapoints, with or without a
\* batch-level gateway
BatchBodies ==
  {[datapoints |-> dps] : dps \in SeqsUpTo(IngestDps, MaxBatch)}
  \cup {[datapoints |-> dps, gateway |-> <<"patio_gateway">>] :
          dps \in SeqsUpTo(IngestDps, MaxBatch)}

\* the bodies of the single form, the empty body among them
SingleBodies == IngestDps \cup {<< >>}

\* the metadata row that ingest registers for datapoint dp
IngestMetaRow(dp, gateway) ==
  MetaRow(dp["id"], dp["name"], dp["units"],
          DictGet(dp, "category", "External"), DictGet(dp, "tags", << >>),
          DictGet(dp, "description", ""), gateway)

\* the single form's checks, in order: the error of the first that fails
SingleError(data) ==
  IF "id" \notin DOMAIN data \/ DictGet(data, "id", "") = "" THEN "Missing id"
  ELSE IF "name" \notin DOMAIN data \/ DictGet(data, "name", "") = ""
       THEN "Missing name"
  ELSE IF "units" \notin DOMAIN data THEN "Missing units"
  ELSE IF DictGet(data, "value", NULL) = NULL THEN "Missing value"
  ELSE IF IsBuiltin(data["id"]) THEN "conflict"
  ELSE "none"

\* the batch form's checks of one datapoint, in order
DatapointError(dp) ==
  IF "id" \notin DOMAIN dp THEN "Missing id"
  ELSE IF "value" \notin DOMAIN dp THEN "Missing value"
  ELSE IF "name" \notin DOMAIN dp THEN "Missing name"
  ELSE IF "units" \notin DOMAIN dp THEN "Missing units"
  ELSE IF IsBuiltin(dp["id"]) THEN "conflict"
  ELSE "none"

\* the batch form's loop from datapoint i on: each datapoint is checked and
\* then registered before the next one is looked at; the loop returns at the
\* first datapoint that fails a check
RECURSIVE ValidateAndRegister(_, _, _, _)
ValidateAndRegister(meta, datapoints, batch_gateway, i) ==
  IF i > Len(datapoints) THEN [error |-> "none", meta |-> meta]
  ELSE IF DatapointError(datapoints[i]) # "none"
       THEN [error |-> DatapointError(datapoints[i]), meta |-> meta]
       ELSE ValidateAndRegister(
              register_external_timeseries(
                meta,
                IngestMetaRow(datapoints[i],
                              DictGet(datapoints[i], "gateway",
                                      batch_gateway))),
              datapoints, batch_gateway, i + 1)

\* {'timeseries_id': dp['id'], 'value': dp['value'],
\*  'timestamp': dp.get('timestamp')} for each datapoint
DbDatapoints(datapoints) ==
  [i \in 1..Len(datapoints) |->
     [timeseries_id |-> datapoints[i]["id"], value |-> datapoints[i]["value"],
      timestamp |-> DictGet(datapoints[i], "timestamp", NULL)]]

\* the response of the route
Response(form, status, error) ==
  [op |-> "ingest", form |-> form, status |-> status, error |-> error]

\* register_external_timeseries called on the Store, with any id
RegisterExternal ==
  \E id \in SeriesIds, name \in {"Garage", "Shadow"} :
    /\ external_timeseries' =
         register_external_timeseries(
           external_timeseries,
           MetaRow(id, name, "F", "External", << >>, "", NULL))
    /\ ret' = [op |-> "register_external_timeseries", timeseries_id |-> id,
               raised |-> FALSE,
               newly |-> ~Existed(external_timeseries, id)]
    /\ UNCHANGED <<timeseries_data, callFrame>>

\* delete_external_timeseries called on the Store
DeleteExternal ==
  \E id \in SeriesIds :
    /\ external_timeseries' =
         delete_external_timeseries(external_timeseries, id)
    /\ ret' = [op |-> "delete_external_timeseries", timeseries_id |-> id,
               deleted |-> Existed(external_timeseries, id)]
    /\ UNCHANGED <<timeseries_data, callFrame>>

\* the single form: all checks, then the registration, then the insert
IngestSingleCall(data, now) ==
  IF DOMAIN data = {}
  THEN /\ ret' = Response("single", 400, "No JSON data provided")
       /\ UNCHANGED <<timeseries_data, external_timeseries, callFrame>>
  ELSE IF SingleError(data) # "none"
  THEN /\ ret' = Response("single", 400, SingleError(data))
       /\ UNCHANGED <<timeseries_data, external_timeseries, callFrame>>
  ELSE /\ external_timeseries' =
            register_external_timeseries(
              external_timeseries,
              IngestMetaRow(data, DictGet(data, "gateway", NULL)))
       /\ timeseries_data' =
            insert_datapoint(timeseries_data, data["id"], data["value"],
                             DictGet(data, "timestamp", NULL), now)
       /\ ret' = Response("single", 200, "none")
       /\ UNCHANGED callFrame

IngestSingle ==
  \E data \in SingleBodies :
    \E now \in (IF "timestamp" \in DOMAIN data THEN {1} ELSE Timestamps) :
      IngestSingleCall(data, now)

\* the batch form: the loop that checks and registers, then one
\* insert_datapoints_batch call; an exception of that call leaves the route
IngestBatchCall(body, now) ==
  LET datapoints == body["datapoints"]
      reg == ValidateAndRegister(external_timeseries, datapoints,
                                 DictGet(body, "gateway", NULL), 1)
      nows == [i \in 1..Len(datapoints) |-> now]
  IN  /\ external_timeseries' = reg.meta
      /\ IF reg.error # "none"
         THEN /\ ret' = Response("batch", 400, reg.error)
              /\ UNCHANGED timeseries_data
         ELSE LET loop == BatchLoop(timeseries_data,
                                    DbDatapoints(datapoints), nows, 1)
              IN  /\ timeseries_data' =
                       CommitOrDiscard(timeseries_data, loop)
                  /\ ret' = IF loop.raised
                            THEN Response("batch", 500, "exception")
                            ELSE Response("batch", 200, "none")
      /\ UNCHANGED callFrame

IngestBatch ==
  \E body \in BatchBodies :
    \E now \in Timestamps : IngestBatchCall(body, now)

(***************************************************************************)
(* The gateway client: one GatewayConnection and its thread (_run).  The   *)
(* gateway and the network decide what a connect, a send and a receive     *)
(* yield; each step of the thread takes one of the possible outcomes.      *)
(***************************************************************************)
\* discovery round trips are counted up to this number
MaxDiscoveries == 2

\* a received line, by what json.loads makes of it: whether it is JSON text,
\* whether the value is an object, whether the value is truthy, and the
\* object's type and number of readings
Line(json, object, truthy, type, readings) ==
  [json |-> json, object |-> object, truthy |-> truthy, type |-> type,
   readings |-> readings]

Lines ==
  {Line(FALSE, FALSE, FALSE, "", 0),        \* bytes that are not JSON text
   Line(TRUE, FALSE, FALSE, "", 0),         \* null, 0, "", []
   Line(TRUE, FALSE, TRUE, "", 0),          \* [1], 5, "x", true
   Line(TRUE, TRUE, FALSE, "", 0),          \* {}
   Line(TRUE, TRUE, TRUE, "sensors", 0),    \* {"type":"sensors",...}
   Line(TRUE, TRUE, TRUE, "data", 1),       \* {"type":"data","readings":[..]}
   Line(TRUE, TRUE, TRUE, "data", 0),       \* a heartbeat: no readings
   Line(TRUE, TRUE, TRUE, "pong", 0)}       \* a type the client does not know

\* what _recv_line's socket reads can yield: a line, a zero-length read, or
\* the socket timeout set by _connect
Received(line) == [kind |-> "line", line |-> line]

ZeroLengthRead == [kind |-> "eof"]

TimedOut == [kind |-> "timeout"]

RecvOutcomes == {Received(l) : l \in Lines} \cup {ZeroLengthRead, TimedOut}

\* parse_message: json.loads of the line, None when it raises JSONDecodeError
\* or UnicodeDecodeError
parse_message(line) ==
  IF line.json
  THEN [none |-> FALSE, object |-> line.object, truthy |-> line.truthy,
        type |-> line.type, readings |-> line.readings]
  ELSE [none |-> TRUE, object |-> FALSE, truthy |-> FALSE, type |-> "",
        readings |-> 0]

\* "not message"
NotMessage(message) == message.none \/ ~message.truthy

\* message.get(...) raises AttributeError on a value that is not a dict
GetRaises(message) == ~message.none /\ ~message.object

\* the outcome of _discover's checks of the reply: "ok", or the exception
DiscoverCheck(r) ==
  IF r.kind = "timeout" THEN "TimeoutError"
  ELSE IF r.kind = "eof" THEN "ConnectionError"
  ELSE LET message == parse_message(r.line)
       IN  IF NotMessage(message) THEN "ConnectionError"
           ELSE IF GetRaises(message) THEN "AttributeError"
           ELSE IF message.type # "sensors" THEN "ConnectionError"
           ELSE "ok"

\* what one pass of the streaming loop does with what it received: "skip"
\* (logged, next pass), "ignore" (next pass), "callback", or the exception
StreamCheck(r) ==
  IF r.kind = "timeout" THEN "TimeoutError"
  ELSE IF r.kind = "eof" THEN "ConnectionError"
  ELSE LET message == parse_message(r.line)
       IN  IF NotMessage(message) THEN "skip"
           ELSE IF GetRaises(message) THEN "AttributeError"
           ELSE IF message.type = "data" /\ message.readings > 0
                THEN "callback"
           ELSE "ignore"

\* handlers that catch the connection errors only: any other exception
\* ends the thread
CaughtIfConnectionError(e) ==
  IF e \in {"ConnectionError", "TimeoutError", "OSError"} THEN "finally"
  ELSE "exited"

\* the except clauses of _run, (ConnectionError, TimeoutError, OSError) and
\* Exception: the exception is logged and control goes on to finally
Caught(e) == "finally"

\* a loop that gives up after an epoch has ended
GiveUpAfterFinally(isRunning) == "exited"

\* where _run goes after the finally block: to the wait, and to the loop
\* test at once when stopped
AfterFinally(isRunning) == IF isRunning THEN "sleep" ELSE "loop"

\* a loop that subscribes without discovering
SubscribeAfterConnect(connected) ==
  IF connected THEN "subscribe" ELSE "finally"

\* the call that follows _connect in _run
AfterConnect(connected) == IF connected THEN "discover" ELSE "finally"

\* the epoch's log with event e added; a repeated data callback is logged once
Logged(log, e) ==
  IF Len(log) > 0 /\ log[Len(log)] = e THEN log ELSE Append(log, e)

Count(n) == IF n < MaxDiscoveries THEN n + 1 ELSE n

\* the objects that own a threading.Lock named _lock: the manager and each
\* live-value holder
Manager == "RemoteSensorManager"

LockOwners == {Manager} \cup SensorIds

\* RemoteSensorManager.__init__, and timeseries_config.TIMESERIES as the
\* module defines it
InitManager ==
  /\ _timeseries = << >>
  /\ TIMESERIES = <<"cpu_temperature">>
  /\ _lock = [o \in LockOwners |-> Free]

InitGateway ==
  /\ InitManager
  /\ running = FALSE
  /\ socket = "none"
  /\ gw_pc = "new"
  /\ epoch_log = << >>
  /\ discoveries = 0
  /\ last_recv = [kind |-> "none"]
  /\ exc = "none"
  /\ slept = 0

gwFrame == <<tableVars, ret, lockVars, managerVars>>

\* start(): the flag is set and the thread begins _run
GwStart ==
  /\ gw_pc = "new"
  /\ running' = TRUE
  /\ gw_pc' = "loop"
  /\ UNCHANGED <<socket, epoch_log, discoveries, last_recv, exc, slept,
                 gwFrame>>

\* stop(), called by another thread: the flag is cleared and the socket, if
\* there is one, is closed under the connection thread
GwStop ==
  /\ running
  /\ running' = FALSE
  /\ socket' = IF socket = "none" THEN "none" ELSE "closed"
  /\ UNCHANGED <<gw_pc, epoch_log, discoveries, last_recv, exc, slept,
                 gwFrame>>

\* a loop that does not test the flag
WhileTrue(isRunning) == "connect"

\* while self._running, at the head of _run: into the body, or out of the
\* method
WhileRunning(isRunning) == IF isRunning THEN "connect" ELSE "exited"

\* while self._running
LoopTest ==
  /\ gw_pc = "loop"
  /\ gw_pc' = WhileRunning(running)
  /\ UNCHANGED <<slept, running, socket, epoch_log, discoveries, last_recv, exc,
                 gwFrame>>

\* _connect: a new socket object, then connect(), which may raise OSError
Connect ==
  /\ gw_pc = "connect"
  /\ \E connected \in BOOLEAN :
       /\ socket' = IF connected THEN "connected" ELSE "unconnected"
       /\ epoch_log' = IF connected THEN <<"connect">> ELSE << >>
       /\ gw_pc' = AfterConnect(connected)
       /\ exc' = IF connected THEN "none" ELSE "OSError"
  /\ last_recv' = [kind |-> "none"]
  /\ UNCHANGED <<slept, running, discoveries, gwFrame>>

\* _send(build_message(...)): sendall, which may raise OSError and does so on
\* a socket that stop() has closed
Send(at, type, next) ==
  /\ gw_pc = at
  /\ \E sent \in (IF socket = "connected" THEN BOOLEAN ELSE {FALSE}) :
       /\ epoch_log' = IF sent THEN Logged(epoch_log, type) ELSE epoch_log
       /\ gw_pc' = IF sent THEN next ELSE "finally"
       /\ exc' = IF sent THEN "none" ELSE "OSError"
  /\ UNCHANGED <<slept, running, socket, discoveries, last_recv, gwFrame>>

\* _discover: the request
SendDiscover == Send("discover", "discover", "discover_recv")

\* _discover's reply r, its checks and the callback, which raises or not
DiscoverStep(r, raised) ==
  /\ gw_pc = "discover_recv"
  /\ running
  /\ last_recv' = r
  /\ IF DiscoverCheck(r) = "ok"
     THEN /\ epoch_log' =
               Logged(Logged(epoch_log, "sensors"), "registered")
          /\ discoveries' = Count(discoveries)
          /\ gw_pc' = IF raised THEN Caught("callback") ELSE "subscribe"
          /\ exc' = IF raised THEN "callback" ELSE "none"
     ELSE /\ gw_pc' = Caught(DiscoverCheck(r))
          /\ exc' = DiscoverCheck(r)
          /\ UNCHANGED <<epoch_log, discoveries>>
  /\ UNCHANGED <<slept, running, socket>>

\* _discover's reply r with a callback of which nothing is known but that
\* it returns or raises
DiscoverPass(r) ==
  /\ \E raised \in BOOLEAN : DiscoverStep(r, raised)
  /\ UNCHANGED gwFrame

\* _discover: _recv_line returns nothing once stop() has cleared the flag
DiscoverStopped ==
  /\ gw_pc = "discover_recv"
  /\ ~running
  /\ gw_pc' = Caught("ConnectionError")
  /\ exc' = "ConnectionError"
  /\ UNCHANGED <<slept, running, socket, epoch_log, discoveries, last_recv,
                 gwFrame>>

\* _discover: the reply
DiscoverRecv == DiscoverStopped \/ \E r \in RecvOutcomes : DiscoverPass(r)

\* _subscribe_and_stream: the request
SendSubscribe == Send("subscribe", "subscribe", "stream")

\* one pass of the streaming loop that receives r; the callback, when it is
\* called, raises or not
StreamStep(r, raised) ==
  /\ gw_pc = "stream"
  /\ running
  /\ last_recv' = r
  /\ CASE StreamCheck(r) \in {"skip", "ignore"} ->
            gw_pc' = "stream" /\ UNCHANGED <<epoch_log, exc>>
       [] StreamCheck(r) = "callback" ->
            /\ epoch_log' = Logged(epoch_log, "data")
            /\ gw_pc' = IF raised THEN Caught("callback") ELSE "stream"
            /\ exc' = IF raised THEN "callback" ELSE "none"
       [] OTHER ->
            /\ gw_pc' = Caught(StreamCheck(r))
            /\ exc' = StreamCheck(r)
            /\ UNCHANGED epoch_log
  /\ UNCHANGED <<slept, running, socket, discoveries>>

\* one pass of the streaming loop with a callback of which nothing is known
\* but that it returns or raises
StreamPass(r) ==
  /\ \E raised \in BOOLEAN : StreamStep(r, raised)
  /\ UNCHANGED gwFrame

StreamRecv == \E r \in RecvOutcomes : StreamPass(r)

\* while self._running is false: the method returns
StreamEnd ==
  /\ gw_pc = "stream"
  /\ ~running
  /\ gw_pc' = "finally"
  /\ UNCHANGED <<slept, running, socket, epoch_log, discoveries, last_recv, exc,
                 gwFrame>>

\* finally: the socket is closed and forgotten
Finally ==
  /\ gw_pc = "finally"
  /\ socket' = "none"
  /\ gw_pc' = AfterFinally(running)
  /\ exc' = "none"
  /\ UNCHANGED <<slept, running, epoch_log, discoveries, last_recv, gwFrame>>

\* GatewayConnection.__init__: reconnect_delay, in seconds
reconnect_delay == 5

\* a wait that grows with every reconnect
DelayWithBackoff(waited) == waited + reconnect_delay

\* the argument of time.sleep after a wait of so many seconds: the attribute
\* _reconnect_delay, which nothing assigns after __init__
_reconnect_delay(waited) == reconnect_delay

\* time.sleep(self._reconnect_delay) returns
Sleep ==
  /\ gw_pc = "sleep"
  /\ gw_pc' = "loop"
  /\ slept' = _reconnect_delay(slept)
  /\ UNCHANGED <<running, socket, epoch_log, discoveries, last_recv, exc,
                 gwFrame>>

\* the steps of the connection thread
GwThread ==
  \/ LoopTest
  \/ Connect
  \/ SendDiscover
  \/ DiscoverRecv
  \/ SendSubscribe
  \/ StreamRecv
  \/ StreamEnd
  \/ Finally
  \/ Sleep

(***************************************************************************)
(* _downsample_lttb: Largest Triangle Three Buckets.  A list is indexed    *)
(* from 0 in the source and from 1 here, so data[j] there is data[j + 1]   *)
(* here.  Timestamps and values are integers.  int(i * bucket_size) is the *)
(* integer quotient of i * (len(data) - 2) by threshold - 2: for the list  *)
(* lengths of this model the floating-point product has the same integer   *)
(* part.  avg_x, avg_y and the area are kept as the sums of the next       *)
(* bucket and as 2 * avg_range_length times the area, the same positive    *)
(* factor for every point of one bucket, so that the comparison of areas   *)
(* is the comparison the source makes.                                     *)
(***************************************************************************)
MaxPoints == 5

Min(a, b) == IF a <= b THEN a ELSE b

Abs(x) == IF x < 0 THEN 0 - x ELSE x

\* data[j]['value'] if data[j]['value'] is not None else 0
ValueOrZero(p) == IF p.value = NULL THEN 0 ELSE p.value[1]

\* bucket edges that begin at the first point
EdgeFromFirst(i, n, threshold) == (i * (n - 2)) \div (threshold - 2)

\* int(i * bucket_size) + 1, an index of the source
BucketEdge(i, n, threshold) == ((i * (n - 2)) \div (threshold - 2)) + 1

\* the sums of timestamp and value over data[from .. to - 1] of the source
RECURSIVE SumX(_, _, _)
SumX(data, from, to) ==
  IF from >= to THEN 0
  ELSE data[from + 1].timestamp + SumX(data, from + 1, to)

RECURSIVE SumY(_, _, _)
SumY(data, from, to) ==
  IF from >= to THEN 0
  ELSE ValueOrZero(data[from + 1]) + SumY(data, from + 1, to)

\* the average point of the next bucket as [length, sum_x, sum_y]; the last
\* point when the bucket is empty
NextBucket(data, i, threshold) ==
  LET n == Len(data)
      avg_range_start == BucketEdge(i + 1, n, threshold)
      avg_range_end == Min(BucketEdge(i + 2, n, threshold), n)
      avg_range_length == avg_range_end - avg_range_start
  IN  IF avg_range_length > 0
      THEN [length |-> avg_range_length,
            sum_x |-> SumX(data, avg_range_start, avg_range_end),
            sum_y |-> SumY(data, avg_range_start, avg_range_end)]
      ELSE [length |-> 1, sum_x |-> data[n].timestamp,
            sum_y |-> ValueOrZero(data[n])]

\* 2 * avg_range_length * area of the triangle (a, data[j], average point)
Area(a, p, avg) ==
  Abs((a.timestamp * avg.length - avg.sum_x) * (ValueOrZero(p) - ValueOrZero(a))
      - (a.timestamp - p.timestamp)
          * (avg.sum_y - ValueOrZero(a) * avg.length))

\* a loop over j that lets a later point of equal area win
RECURSIVE LastLargestTriangle(_, _, _, _, _, _, _)
LastLargestTriangle(data, a, avg, j, to, max_area, max_area_point) ==
  IF j >= to THEN max_area_point
  ELSE LET area == Area(a, data[j + 1], avg)
       IN  IF area >= max_area
           THEN LastLargestTriangle(data, a, avg, j + 1, to, area, j)
           ELSE LastLargestTriangle(data, a, avg, j + 1, to, max_area,
                                    max_area_point)

\* the loop over j: the index whose area is the first strict maximum
RECURSIVE LargestTriangle(_, _, _, _, _, _, _)
LargestTriangle(data, a, avg, j, to, max_area, max_area_point) ==
  IF j >= to THEN max_area_point
  ELSE LET area == Area(a, data[j + 1], avg)
       IN  IF area > max_area
           THEN LargestTriangle(data, a, avg, j + 1, to, area, j)
           ELSE LargestTriangle(data, a, avg, j + 1, to, max_area,
                                max_area_point)

\* the loop over i: sampled after the buckets i .. threshold - 3
RECURSIVE BucketLoop(_, _, _, _)
BucketLoop(data, threshold, i, sampled) ==
  IF i >= threshold - 2 THEN sampled
  ELSE LET n == Len(data)
           range_offs == BucketEdge(i, n, threshold)
           range_to == BucketEdge(i + 1, n, threshold)
           max_area_point ==
             LargestTriangle(data, sampled[Len(sampled)],
                             NextBucket(data, i, threshold),
                             range_offs, Min(range_to, n), -1, range_offs)
       IN  BucketLoop(data, threshold, i + 1,
                      Append(sampled, data[max_area_point + 1]))

\* a downsampler that drops the closing append of the last point
SampleWithoutLast(data, threshold) ==
  BucketLoop(data, threshold, 0, <<data[1]>>)

SampleBuckets(data, threshold) ==
  Append(BucketLoop(data, threshold, 0, <<data[1]>>), data[Len(data)])

_downsample_lttb(data, threshold) ==
  IF Len(data) <= threshold \/ threshold < 3 THEN data
  ELSE SampleBuckets(data, threshold)

\* the ordered inputs: up to MaxPoints points, the first at timestamp 1 and
\* each next one a gap later
Gaps == {1, 2}

RECURSIVE SumOfGaps(_, _)
SumOfGaps(gaps, k) == IF k = 0 THEN 0 ELSE gaps[k] + SumOfGaps(gaps, k - 1)

OrderedData(gaps, values) ==
  [i \in 1..Len(values) |->
     [timestamp |-> 1 + SumOfGaps(gaps, i - 1), value |-> values[i]]]

Thresholds == (0 - 1)..(MaxPoints + 1)

\* the arguments of one call, before it runs
InitLttb ==
  /\ InitTables
  /\ \E n \in 0..MaxPoints, threshold \in Thresholds :
       \E gaps \in [1..(n - 1) -> Gaps], values \in [1..n -> SqlValues] :
         ret = [op |-> "args", data |-> OrderedData(gaps, values),
                threshold |-> threshold]
  /\ InitLock
  /\ InitGateway

Downsample ==
  /\ ret.op = "args"
  /\ ret' = [op |-> "_downsample_lttb", data |-> ret.data,
             threshold |-> ret.threshold,
             sampled |-> _downsample_lttb(ret.data, ret.threshold)]
  /\ UNCHANGED <<timeseries_data, external_timeseries, callFrame>>

(***************************************************************************)
(* query_range with its argument max_points.                               *)
(***************************************************************************)
\* an optional max_points argument: None or a number
OptMaxPoints == {NULL} \cup {<<n>> : n \in 0..(MaxRows + 1)}

\* 'if max_points' is false for None and for 0
Truthy(max_points) == max_points # NULL /\ max_points[1] # 0

query_range_max_points(table, sid, start_time, end_time, max_points) ==
  LET data == query_range(table, sid, start_time, end_time)
  IN  IF Truthy(max_points) /\ Len(data) > max_points[1]
      THEN _downsample_lttb(data, max_points[1])
      ELSE data

QueryRangeMaxPoints ==
  \E sid \in SeriesIds, start_time \in QueryBounds, end_time \in QueryBounds,
     max_points \in OptMaxPoints :
    /\ ret' = [op |-> "query_range", timeseries_id |-> sid,
               start_time |-> start_time, end_time |-> end_time,
               max_points |-> max_points,
               data |-> query_range_max_points(timeseries_data, sid,
                                               start_time, end_time,
                                               max_points)]
    /\ UNCHANGED <<timeseries_data, external_timeseries, callFrame>>

(***************************************************************************)
(* query_latest.                                                           *)
(***************************************************************************)
\* the scan in ascending order: the oldest rows first
OldestFirst(rows) == OrderByTimestampAsc(rows)

\* ORDER BY timestamp DESC
RECURSIVE OrderByTimestampDesc(_)
OrderByTimestampDesc(rows) ==
  IF rows = {} THEN << >>
  ELSE LET first == CHOOSE r \in rows :
                      \A q \in rows : r.timestamp >= q.timestamp
       IN  <<first>> \o OrderByTimestampDesc(rows \ {first})

\* LIMIT ?: the engine reads a negative limit as no limit
Limit(rows, limit) ==
  IF limit < 0 THEN rows ELSE SubSeq(rows, 1, Min(limit, Len(rows)))

\* list(reversed(...))
Reversed(seq) == [i \in 1..Len(seq) |-> seq[Len(seq) + 1 - i]]

query_latest(table, sid, limit) ==
  Reversed(Points(Limit(
    OrderByTimestampDesc({r \in table : r.timeseries_id = sid}), limit)))

\* the limits a caller asks for: none of the rows up to more than are stored
Limits == 0..(MaxRows + 1)

QueryLatest ==
  \E sid \in SeriesIds, limit \in Limits :
    /\ ret' = [op |-> "query_latest", timeseries_id |-> sid, limit |-> limit,
               data |-> query_latest(timeseries_data, sid, limit)]
    /\ UNCHANGED <<timeseries_data, external_timeseries, callFrame>>

(***************************************************************************)
(* query_minmax and query_minmax_batch.                                    *)
(***************************************************************************)
\* WHERE timeseries_id = ? AND timestamp >= ? AND timestamp <= ?
\*   AND value IS NOT NULL
SelectNotNull(table, sid, start_time, end_time) ==
  {r \in SelectRange(table, sid, start_time, end_time) : r.value # NULL}

\* MAX(value) and MIN(value): NULL over no row
SqlMax(rows) ==
  IF rows = {} THEN NULL
  ELSE Num(CHOOSE v \in {r.value[1] : r \in rows} :
             \A r \in rows : v >= r.value[1])

\* the greatest value in the place of the least
GreatestValue(rows) == SqlMax(rows)

SqlMin(rows) ==
  IF rows = {} THEN NULL
  ELSE Num(CHOOSE v \in {r.value[1] : r \in rows} :
             \A r \in rows : v <= r.value[1])

\* the result of query_minmax: None, or the dict as a one-element tuple
query_minmax(table, sid, start_time, end_time) ==
  LET rows == SelectNotNull(table, sid, start_time, end_time)
      row == [min_val |-> SqlMin(rows), max_val |-> SqlMax(rows)]
  IN  IF row.min_val # NULL
      THEN <<[min |-> row.min_val, max |-> row.max_val]>>
      ELSE NULL

\* the least value in the place of the oldest
LeastValue(rows) == SqlMin(rows)

\* SELECT value ... ORDER BY timestamp ASC LIMIT 1, and
\* oldest_row['value'] if oldest_row else None
OldestValue(rows) ==
  LET oldest_row == Limit(OrderByTimestampAsc(rows), 1)
  IN  IF oldest_row # << >> THEN oldest_row[1].value ELSE NULL

\* results after the loop over timeseries_ids: a dict keyed by the ids for
\* which the first query found a value
query_minmax_batch(table, timeseries_ids, start_time, end_time) ==
  LET rows(ts_id) == SelectNotNull(table, ts_id, start_time, end_time)
      found == {ts_id \in {timeseries_ids[i] : i \in 1..Len(timeseries_ids)} :
                  SqlMin(rows(ts_id)) # NULL}
  IN  [ts_id \in found |->
         [min |-> SqlMin(rows(ts_id)), max |-> SqlMax(rows(ts_id)),
          oldest |-> OldestValue(rows(ts_id))]]

\* the lists of ids a caller asks for: no id, both ids, one id twice
IdLists ==
  {<< >>, <<"cpu_temperature", "garage_temp">>, <<"garage_temp", "garage_temp">>}

QueryMinmax ==
  \E sid \in SeriesIds, start_time \in QueryBounds, end_time \in QueryBounds :
    /\ ret' = [op |-> "query_minmax", timeseries_id |-> sid,
               start_time |-> start_time, end_time |-> end_time,
               result |-> query_minmax(timeseries_data, sid,
                                       start_time, end_time)]
    /\ UNCHANGED <<timeseries_data, external_timeseries, callFrame>>

QueryMinmaxBatch ==
  \E ids \in IdLists, start_time \in QueryBounds, end_time \in QueryBounds :
    /\ ret' = [op |-> "query_minmax_batch", timeseries_ids |-> ids,
               start_time |-> start_time, end_time |-> end_time,
               results |-> query_minmax_batch(timeseries_data, ids,
                                              start_time, end_time)]
    /\ UNCHANGED <<timeseries_data, external_timeseries, callFrame>>

(***************************************************************************)
(* register_external_timeseries called by request threads of the web       *)
(* server at the same time, step by step: the with-statement, the SELECT   *)
(* that sets existed, INSERT OR REPLACE with conn.commit(), and the return *)
(* of 'not existed' on leaving the with-statement.  The only callers are   *)
(* the two forms of ingest, on the package's Store.                        *)
(***************************************************************************)
Requests == {"request_1", "request_2"}

\* the descriptors a request registers
RequestRows ==
  {MetaRow(id, name, "F", "External", << >>, "", NULL) :
     id \in SeriesIds, name \in {"Garage", "Shadow"}}

InitRegister ==
  /\ InitStore
  /\ write_lock = [s \in Stores |-> Free]
  /\ pc = [t \in Requests |-> "idle"]
  /\ op = [t \in Requests |-> NoCall]
  /\ engine_writer = Free
  /\ attempt = 0
  /\ InitCollector
  /\ InitAutomation
  /\ InitGateway

RegCall(t) ==
  /\ pc[t] = "idle"
  /\ \E row \in RequestRows :
       op' = [op EXCEPT ![t] =
                [method |-> "register_external_timeseries",
                 store |-> PackageStore, row |-> row]]
  /\ pc' = [pc EXCEPT ![t] = "acquire"]
  /\ UNCHANGED <<tableVars, ret, gatewayVars, write_lock, engine_writer,
                 attempt, workerVars>>

\* SELECT id FROM external_timeseries WHERE id = ?; existed = ... is not None
RegSelect(t) ==
  /\ pc[t] = "section"
  /\ op' = [op EXCEPT ![t] =
              [method |-> op[t].method, store |-> op[t].store,
               row |-> op[t].row,
               existed |-> Existed(external_timeseries, op[t].row.id)]]
  /\ pc' = [pc EXCEPT ![t] = "selected"]
  /\ UNCHANGED <<tableVars, ret, gatewayVars, write_lock, engine_writer,
                 attempt, workerVars>>

\* INSERT OR REPLACE INTO external_timeseries ...; conn.commit()
RegCommit(t) ==
  /\ pc[t] = "selected"
  /\ external_timeseries' =
       register_external_timeseries(external_timeseries, op[t].row)
  /\ pc' = [pc EXCEPT ![t] = "release"]
  /\ UNCHANGED <<timeseries_data, timeseries_settings, ret, gatewayVars,
                 write_lock, op, engine_writer, attempt, workerVars>>

\* return not existed; finally conn.close(); the lock is released
RegReturn(t) ==
  /\ pc[t] = "release"
  /\ ret' = [op |-> "register_external_timeseries", thread |-> t,
             row |-> op[t].row, raised |-> FALSE,
             newly |-> ~op[t].existed]
  /\ write_lock' = [write_lock EXCEPT ![op[t].store] = Free]
  /\ pc' = [pc EXCEPT ![t] = "idle"]
  /\ op' = [op EXCEPT ![t] = NoCall]
  /\ UNCHANGED <<tableVars, gatewayVars, engine_writer, attempt,
                 workerVars>>

(***************************************************************************)
(* RemoteSensorManager: the callbacks that a GatewayConnection calls with  *)
(* the sensors of a discovery reply and with the readings of a data        *)
(* message.  A sensor description and a reading are JSON values: a dict    *)
(* is a function whose domain holds its keys, and there is one value that  *)
(* is not a dict.  self._db is the Store object of timeseries_routes,      *)
(* whose insert_datapoints_batch (src/timeseries_db.py:118-149) is the     *)
(* loop, commit and close modelled by BatchLoop and CommitOrDiscard.       *)
(***************************************************************************)
\* a list element that is not a JSON object
NotADict == [not_a_dict |-> TRUE]

IsDict(x) == "not_a_dict" \notin DOMAIN x

\* the gateway ids that discovery replies carry
Gateways == {"gw_a", "gw_b"}

\* RemoteSensorTimeseries.__init__ as _on_sensors_discovered calls it
RemoteSensorTimeseries(sensor_info, gateway_id) ==
  [sensor_id |-> sensor_info["id"],
   name |-> DictGet(sensor_info, "name", sensor_info["id"]),
   gateway_id |-> gateway_id,
   value |-> NULL,
   timestamp |-> NULL]

\* RemoteSensorTimeseries.update
update(ts, value, timestamp) ==
  [ts EXCEPT !.value = value, !.timestamp = timestamp]

\* timeseries_config.TIMESERIES_MAP: the ids of the list's series
TIMESERIES_MAP(list) == {list[i] : i \in 1..Len(list)}

\* _register_timeseries: the list after the call
_register_timeseries(list, id) ==
  IF id \notin TIMESERIES_MAP(list) THEN Append(list, id) ELSE list

\* self._timeseries[sensor_id] = ts
DictSet(d, key, v) ==
  [k \in DOMAIN d \cup {key} |-> IF k = key THEN v ELSE d[k]]

\* "sensor_id not in self._timeseries" is false
Known(cache, sensor_id) == sensor_id \in DOMAIN cache

\* the loop of _on_sensors_discovered over sensors[i..]: the manager's dict
\* and the list of series after it, and whether an iteration raised
RECURSIVE DiscoveredLoop(_, _, _, _, _)
DiscoveredLoop(cache, list, gateway_id, sensors, i) ==
  IF i > Len(sensors)
  THEN [raised |-> FALSE, cache |-> cache, list |-> list]
  ELSE IF ~IsDict(sensors[i])
  THEN [raised |-> TRUE, cache |-> cache, list |-> list]
  ELSE IF "id" \notin DOMAIN sensors[i] \/ Known(cache, sensors[i]["id"])
  THEN DiscoveredLoop(cache, list, gateway_id, sensors, i + 1)
  ELSE DiscoveredLoop(
         DictSet(cache, sensors[i]["id"],
                 RemoteSensorTimeseries(sensors[i], gateway_id)),
         _register_timeseries(list, sensors[i]["id"]),
         gateway_id, sensors, i + 1)

\* a datapoint that leaves its timestamp to the Store
DatapointAtArrival(sensor_id, value, timestamp) ==
  [timeseries_id |-> sensor_id, value |-> value]

\* the dict that _on_data_received queues for a reading
Datapoint(sensor_id, value, timestamp) ==
  [timeseries_id |-> sensor_id, value |-> value, timestamp |-> timestamp]

\* a data callback that makes a holder for an id it has not been told of
HolderOnDemand(cache, sensor_id) ==
  IF sensor_id \in DOMAIN cache THEN cache
  ELSE DictSet(cache, sensor_id,
               [sensor_id |-> sensor_id, name |-> sensor_id,
                gateway_id |-> "", value |-> NULL, timestamp |-> NULL])

\* what a reading finds the dict to be: self._timeseries.get(sensor_id) makes
\* no entry
Lookup(cache, sensor_id) == cache

\* the loop of _on_data_received over readings[i..]: the dict and the queued
\* datapoints after it, and whether an iteration raised
RECURSIVE ReceivedLoop(_, _, _, _)
ReceivedLoop(cache, datapoints, readings, i) ==
  IF i > Len(readings)
  THEN [raised |-> FALSE, cache |-> cache, datapoints |-> datapoints]
  ELSE IF ~IsDict(readings[i])
  THEN [raised |-> TRUE, cache |-> cache, datapoints |-> datapoints]
  ELSE IF "id" \notin DOMAIN readings[i]
          \/ DictGet(readings[i], "ts", NULL) = NULL
  THEN ReceivedLoop(cache, datapoints, readings, i + 1)
  ELSE LET sensor_id == readings[i]["id"]
           value == DictGet(readings[i], "value", NULL)
           timestamp == readings[i]["ts"]
           found == Lookup(cache, sensor_id)
       IN  IF sensor_id \notin DOMAIN found
           THEN ReceivedLoop(cache, datapoints, readings, i + 1)
           ELSE ReceivedLoop(
                  [found EXCEPT
                     ![sensor_id] = update(@, value, timestamp)],
                  IF value # NULL
                  THEN Append(datapoints,
                              Datapoint(sensor_id, value, timestamp))
                  ELSE datapoints,
                  readings, i + 1)

\* the lists of one element of S, and of two that begin with one of F
OneOrTwo(F, S) == {<<a>> : a \in S} \cup {<<a, b>> : a \in F, b \in S}

\* the sensor descriptions of discovery replies: complete ones, one without
\* id and one that is not a dict
Described == {[id |-> sid, name |-> "Temperature"] : sid \in SensorIds}

SensorInfos == Described \cup {[name |-> "Temperature"], NotADict}

SensorLists == OneOrTwo(Described, SensorInfos)

\* the readings of data messages: a value and null at each source timestamp,
\* a number too large for float(), a reading of the other sensor, one
\* without ts, one without id and one that is not a dict
Measured ==
  {[id |-> "patio_temp", value |-> Num(12), ts |-> <<1>>],
   [id |-> "attic_temp", value |-> Num(10), ts |-> <<1>>]}

ReadingDicts ==
  Measured
    \cup {[id |-> "patio_temp", value |-> v, ts |-> <<t>>] :
            v \in {Num(12), NULL}, t \in Timestamps}
    \cup {[id |-> "patio_temp", value |-> TooLarge, ts |-> <<1>>],
          [id |-> "patio_temp", value |-> Num(10)],
          [value |-> Num(10), ts |-> <<1>>],
          NotADict}

ReadingLists == OneOrTwo(Measured, ReadingDicts)

\* _on_sensors_discovered(gateway_id, sensors), run to its end
SensorsDiscovered(gateway_id, sensors) ==
  LET loop == DiscoveredLoop(_timeseries, TIMESERIES, gateway_id, sensors, 1)
  IN  /\ _timeseries' = loop.cache
      /\ TIMESERIES' = loop.list
      /\ ret' = [op |-> "_on_sensors_discovered", raised |-> loop.raised]
      /\ UNCHANGED <<tableVars, lockVars, _lock>>

\* self._db.insert_datapoints_batch(datapoints) raises: now is the Store's
\* clock, fails says that the engine refuses the write
\* (sqlite3.OperationalError)
WriteFailed(table, datapoints, now, fails) ==
  \/ fails
  \/ BatchLoop(table, datapoints,
               [i \in 1..Len(datapoints) |-> now], 1).raised

\* an except clause that logs the error and raises it again
WriteErrorReraised(failed) == failed

\* except Exception as e: logger.error(...): whether the error of the write
\* leaves _on_data_received
WriteErrorEscapes(failed) == FALSE

\* whether _on_data_received(readings) raises
CallbackRaises(cache, table, readings, now, fails) ==
  LET loop == ReceivedLoop(cache, << >>, readings, 1)
  IN  \/ loop.raised
      \/ /\ loop.datapoints # << >>
         /\ WriteErrorEscapes(WriteFailed(table, loop.datapoints, now, fails))

\* _on_data_received(readings), run to its end
DataReceived(readings, now, fails) ==
  LET loop == ReceivedLoop(_timeseries, << >>, readings, 1)
      datapoints == loop.datapoints
      nows == [i \in 1..Len(datapoints) |-> now]
      write == BatchLoop(timeseries_data, datapoints, nows, 1)
      called == ~loop.raised /\ datapoints # << >>
      failed == called
                  /\ WriteFailed(timeseries_data, datapoints, now, fails)
  IN  /\ _timeseries' = loop.cache
      /\ timeseries_data' =
           IF called /\ ~fails
           THEN CommitOrDiscard(timeseries_data, write)
           ELSE timeseries_data
      /\ WithinRows(timeseries_data')
      /\ ret' = [op |-> "_on_data_received",
                 raised |-> CallbackRaises(_timeseries, timeseries_data,
                                           readings, now, fails),
                 logged |-> failed]
      /\ UNCHANGED <<external_timeseries, timeseries_settings, lockVars,
                     TIMESERIES, _lock>>

\* the callbacks as calls of their own, made by the connection to one gateway
OnSensorsDiscovered ==
  \E sensors \in SensorLists :
    SensorsDiscovered("gw_a", sensors) /\ UNCHANGED connVars

\* what the engine can do with the write of the queued datapoints
WriteOutcomes(datapoints) == IF datapoints = << >> THEN {FALSE} ELSE BOOLEAN

OnDataReceived ==
  \E readings \in ReadingLists :
    LET datapoints ==
          ReceivedLoop(_timeseries, << >>, readings, 1).datapoints
    IN  \E now \in ClockReads(datapoints),
           fails \in WriteOutcomes(datapoints) :
          DataReceived(readings, now, fails) /\ UNCHANGED connVars

\* a gateway whose sensors include one named like a series defined in code:
\* its discovery replies and its data messages
NamesakeIds == BuiltinIds \cup {"patio_temp"}

NamesakeLists ==
  {<<[id |-> sid, name |-> "Temperature"]>> : sid \in NamesakeIds}

NamesakeReadings ==
  {<<[id |-> sid, value |-> Num(v), ts |-> <<t>>]>> :
     sid \in NamesakeIds, v \in Numbers, t \in Timestamps}

NamesakeDiscovered ==
  \E sensors \in NamesakeLists :
    SensorsDiscovered("gw_a", sensors) /\ UNCHANGED connVars

NamesakeData ==
  \E readings \in NamesakeReadings :
    LET datapoints ==
          ReceivedLoop(_timeseries, << >>, readings, 1).datapoints
    IN  \E now \in ClockReads(datapoints),
           fails \in WriteOutcomes(datapoints) :
          DataReceived(readings, now, fails) /\ UNCHANGED connVars

(***************************************************************************)
(* The manager's callbacks step by step, run by the threads of two         *)
(* gateway connections, beside a request thread in get_current_values of   *)
(* timeseries_routes, which reads the current value of every series of     *)
(* the list TIMESERIES.  Both connections write to the same Store object.  *)
(* A step ends where the thread acquires or releases a lock.               *)
(***************************************************************************)
Conns == {"conn_a", "conn_b"}

Reader == "get_current_values"

ManagerThreads == Conns \cup {Reader}

\* the gateway_id that a connection's discovery reply carries
GatewayOf(t) == IF t = "conn_a" THEN "gw_a" ELSE "gw_b"

\* the sensors of the discovery replies and the readings of the data
\* messages that the connections receive
ThreadSensorLists ==
  {<<[id |-> "patio_temp", name |-> "Temperature"]>>,
   <<[id |-> "attic_temp", name |-> "Temperature"],
     [id |-> "patio_temp", name |-> "Temperature"]>>}

ThreadReadingLists ==
  {<<[id |-> "patio_temp", value |-> Num(12), ts |-> <<1>>]>>,
   <<[id |-> "attic_temp", value |-> NULL, ts |-> <<1>>],
     [id |-> "patio_temp", value |-> Num(12), ts |-> <<1>>]>>}

InitThreads ==
  /\ InitStore
  /\ write_lock = [s \in Stores |-> Free]
  /\ pc = [t \in ManagerThreads |-> "idle"]
  /\ op = [t \in ManagerThreads |-> NoCall]
  /\ engine_writer = Free
  /\ attempt = 0
  /\ InitCollector
  /\ InitAutomation
  /\ InitGateway

\* what no step of these threads changes
threadFrame ==
  <<external_timeseries, timeseries_settings, ret, engine_writer, attempt,
    workerVars, connVars>>

\* the thread returns from its call
Return(t) ==
  /\ pc' = [pc EXCEPT ![t] = "idle"]
  /\ op' = [op EXCEPT ![t] = NoCall]

\* the items a callback loops over, and the id its current item names
Items(call) ==
  IF call.method = "_on_sensors_discovered" THEN call.sensors
  ELSE call.readings

ItemId(call) == Items(call)[call.i]["id"]

\* a connection thread enters _on_sensors_discovered
DiscoveredCall(t) ==
  /\ pc[t] = "idle"
  /\ \E sensors \in ThreadSensorLists :
       op' = [op EXCEPT ![t] =
                [method |-> "_on_sensors_discovered",
                 gateway_id |-> GatewayOf(t), sensors |-> sensors, i |-> 1]]
  /\ pc' = [pc EXCEPT ![t] = "with_lock"]
  /\ UNCHANGED <<timeseries_data, write_lock, managerVars, threadFrame>>

\* a connection thread enters _on_data_received
ReceivedCall(t) ==
  /\ pc[t] = "idle"
  /\ \E readings \in ThreadReadingLists :
       op' = [op EXCEPT ![t] =
                [method |-> "_on_data_received", readings |-> readings,
                 i |-> 1, datapoints |-> << >>]]
  /\ pc' = [pc EXCEPT ![t] = "with_lock"]
  /\ UNCHANGED <<timeseries_data, write_lock, managerVars, threadFrame>>

\* a with-statement that does not wait for the lock
ManagerLockIgnored(owner) == TRUE

\* threading.Lock.acquire of an object's _lock proceeds only when nobody
\* holds it
ManagerLockFree(owner) == _lock[owner] = Free

\* with self._lock: in either callback
WithLock(t) ==
  /\ pc[t] = "with_lock"
  /\ ManagerLockFree(Manager)
  /\ _lock' = [_lock EXCEPT ![Manager] = t]
  /\ pc' = [pc EXCEPT ![t] = "locked"]
  /\ UNCHANGED <<timeseries_data, write_lock, op, _timeseries, TIMESERIES,
                 threadFrame>>

\* if sensor_id not in self._timeseries
DiscoveredCheck(t) ==
  /\ pc[t] = "locked"
  /\ op[t].method = "_on_sensors_discovered"
  /\ pc' = [pc EXCEPT ![t] = IF Known(_timeseries, ItemId(op[t]))
                              THEN "unlock" ELSE "create"]
  /\ UNCHANGED <<timeseries_data, write_lock, op, managerVars, threadFrame>>

\* ts = RemoteSensorTimeseries(...); self._timeseries[sensor_id] = ts;
\* self._register_timeseries(ts)
DiscoveredCreate(t) ==
  /\ pc[t] = "create"
  /\ _timeseries' =
       DictSet(_timeseries, ItemId(op[t]),
               RemoteSensorTimeseries(op[t].sensors[op[t].i],
                                      op[t].gateway_id))
  /\ TIMESERIES' = _register_timeseries(TIMESERIES, ItemId(op[t]))
  /\ pc' = [pc EXCEPT ![t] = "unlock"]
  /\ UNCHANGED <<timeseries_data, write_lock, op, _lock, threadFrame>>

\* ts = self._timeseries.get(sensor_id); if ts:
ReceivedGet(t) ==
  /\ pc[t] = "locked"
  /\ op[t].method = "_on_data_received"
  /\ pc' = [pc EXCEPT ![t] = IF Known(_timeseries, ItemId(op[t]))
                              THEN "update" ELSE "unlock"]
  /\ UNCHANGED <<timeseries_data, write_lock, op, managerVars, threadFrame>>

\* ts.update: with self._lock of the holder
UpdateLock(t) ==
  /\ pc[t] = "update"
  /\ ManagerLockFree(ItemId(op[t]))
  /\ _lock' = [_lock EXCEPT ![ItemId(op[t])] = t]
  /\ pc' = [pc EXCEPT ![t] = "updating"]
  /\ UNCHANGED <<timeseries_data, write_lock, op, _timeseries, TIMESERIES,
                 threadFrame>>

\* ts.update: the assignments and the end of its with-block; then the
\* datapoint is queued when the value is not None
Update(t) ==
  LET reading == op[t].readings[op[t].i]
  IN  /\ pc[t] = "updating"
      /\ _timeseries' =
           [_timeseries EXCEPT
              ![reading["id"]] = update(@, reading["value"], reading["ts"])]
      /\ _lock' = [_lock EXCEPT ![reading["id"]] = Free]
      /\ op' = [op EXCEPT
                  ![t].datapoints =
                     IF reading["value"] # NULL
                     THEN Append(@, Datapoint(reading["id"], reading["value"],
                                              reading["ts"]))
                     ELSE @]
      /\ pc' = [pc EXCEPT ![t] = "unlock"]
      /\ UNCHANGED <<timeseries_data, write_lock, TIMESERIES, threadFrame>>

\* a with-block that ends only when the callback returns
StillHeld(t) == t

\* who holds the manager's lock when thread t has left the with-block
Released(t) == Free

\* the end of the with-block of either callback, and where the thread goes:
\* to the next item, to the Store write when the loop over the readings has
\* queued datapoints, or back to the connection
Unlock(t) ==
  /\ pc[t] = "unlock"
  /\ _lock' = [_lock EXCEPT ![Manager] = Released(t)]
  /\ IF op[t].i < Len(Items(op[t]))
     THEN /\ op' = [op EXCEPT ![t].i = @ + 1]
          /\ pc' = [pc EXCEPT ![t] = "with_lock"]
     ELSE IF op[t].method = "_on_data_received"
             /\ op[t].datapoints # << >>
     THEN /\ pc' = [pc EXCEPT ![t] = "insert"]
          /\ UNCHANGED op
     ELSE Return(t)
  /\ UNCHANGED <<timeseries_data, write_lock, _timeseries, TIMESERIES,
                 threadFrame>>

\* insert_datapoints_batch: with self.lock of the Store object
InsertLock(t) ==
  /\ pc[t] = "insert"
  /\ LockFree(LegacyStore)
  /\ write_lock' = [write_lock EXCEPT ![LegacyStore] = t]
  /\ pc' = [pc EXCEPT ![t] = "inserting"]
  /\ UNCHANGED <<timeseries_data, op, managerVars, threadFrame>>

\* insert_datapoints_batch: the loop, commit and close, and the end of the
\* with-block; an exception is logged by _on_data_received
InsertCommit(t) ==
  /\ pc[t] = "inserting"
  /\ \E fails \in BOOLEAN :
       LET dps == op[t].datapoints
           nows == [i \in 1..Len(dps) |-> 1]
       IN  timeseries_data' =
             IF fails THEN timeseries_data
             ELSE CommitOrDiscard(timeseries_data,
                                  BatchLoop(timeseries_data, dps, nows, 1))
  /\ write_lock' = [write_lock EXCEPT ![LegacyStore] = Free]
  /\ Return(t)
  /\ UNCHANGED <<managerVars, threadFrame>>

\* a request thread enters get_current_values of timeseries_routes
CurrentCall(t) ==
  /\ pc[t] = "idle"
  /\ op' = [op EXCEPT ![t] =
              [method |-> "get_current_values", i |-> 1, results |-> << >>]]
  /\ pc' = [pc EXCEPT ![t] = "for"]
  /\ UNCHANGED <<timeseries_data, write_lock, managerVars, threadFrame>>

\* for ts in get_all_timeseries(): the next series of the list; a series
\* defined in code is read at once, a remote sensor's holder under its lock
CurrentNext(t) ==
  /\ pc[t] = "for"
  /\ IF op[t].i > Len(TIMESERIES) THEN Return(t)
     ELSE IF TIMESERIES[op[t].i] \in SensorIds
     THEN pc' = [pc EXCEPT ![t] = "value_lock"] /\ UNCHANGED op
     ELSE /\ op' = [op EXCEPT ![t].results = Append(@, Num(10)),
                              ![t].i = @ + 1]
          /\ UNCHANGED pc
  /\ UNCHANGED <<timeseries_data, write_lock, managerVars, threadFrame>>

\* getCurrentValue: with self._lock of the holder
CurrentValueLock(t) ==
  /\ pc[t] = "value_lock"
  /\ ManagerLockFree(TIMESERIES[op[t].i])
  /\ _lock' = [_lock EXCEPT ![TIMESERIES[op[t].i]] = t]
  /\ pc' = [pc EXCEPT ![t] = "value"]
  /\ UNCHANGED <<timeseries_data, write_lock, op, _timeseries, TIMESERIES,
                 threadFrame>>

\* getCurrentValue: return self._value and the end of its with-block
CurrentValue(t) ==
  LET sensor_id == TIMESERIES[op[t].i]
  IN  /\ pc[t] = "value"
      /\ _lock' = [_lock EXCEPT ![sensor_id] = Free]
      /\ op' = [op EXCEPT
                  ![t].results = Append(@, _timeseries[sensor_id].value),
                  ![t].i = @ + 1]
      /\ pc' = [pc EXCEPT ![t] = "for"]
      /\ UNCHANGED <<timeseries_data, write_lock, _timeseries, TIMESERIES,
                     threadFrame>>

\* the steps of a connection thread inside the manager's callbacks
DiscoveredStep(t) ==
  \/ (WithLock(t) /\ op[t].method = "_on_sensors_discovered")
  \/ DiscoveredCheck(t)
  \/ DiscoveredCreate(t)
  \/ (Unlock(t) /\ op[t].method = "_on_sensors_discovered")

ConnStep(t) ==
  \/ DiscoveredCall(t)
  \/ ReceivedCall(t)
  \/ WithLock(t)
  \/ DiscoveredCheck(t)
  \/ DiscoveredCreate(t)
  \/ ReceivedGet(t)
  \/ UpdateLock(t)
  \/ Update(t)
  \/ Unlock(t)
  \/ InsertLock(t)
  \/ InsertCommit(t)

ReaderStep(t) ==
  \/ CurrentCall(t)
  \/ CurrentNext(t)
  \/ CurrentValueLock(t)
  \/ CurrentValue(t)

(***************************************************************************)
(* A GatewayConnection whose callbacks are the manager's: the reply of     *)
(* _discover is passed to _on_sensors_discovered and the readings of a     *)
(* data message to _on_data_received, inside the thread's step.            *)
(***************************************************************************)
\* the sensors of this gateway's discovery replies
DiscoveredSensors ==
  {<<[id |-> "patio_temp", name |-> "Temperature"]>>, <<NotADict>>}

\* the readings of this gateway's data messages
StreamedReadings ==
  {<<[id |-> "patio_temp", value |-> Num(12), ts |-> <<1>>]>>,
   <<[id |-> "patio_temp", value |-> TooLarge, ts |-> <<1>>]>>,
   <<NotADict>>}

\* _discover with the manager's callback
ManagedDiscoverPass(r, sensors) ==
  IF DiscoverCheck(r) = "ok"
  THEN /\ DiscoverStep(
            r, DiscoveredLoop(_timeseries, TIMESERIES, "gw_a", sensors,
                              1).raised)
       /\ SensorsDiscovered("gw_a", sensors)
  ELSE DiscoverStep(r, FALSE) /\ UNCHANGED gwFrame

ManagedDiscoverRecv ==
  \E r \in RecvOutcomes, sensors \in DiscoveredSensors :
    ManagedDiscoverPass(r, sensors)

\* one pass of the streaming loop with the manager's callback
ManagedStreamPass(r, readings, fails) ==
  IF StreamCheck(r) = "callback"
  THEN /\ StreamStep(
            r, CallbackRaises(_timeseries, timeseries_data, readings, 1,
                              fails))
       /\ DataReceived(readings, 1, fails)
  ELSE StreamStep(r, FALSE) /\ UNCHANGED gwFrame

ManagedStreamRecv ==
  \E r \in RecvOutcomes, readings \in StreamedReadings, fails \in BOOLEAN :
    ManagedStreamPass(r, readings, fails)

(***************************************************************************)
(* The collector thread (TimeseriesCollector._collection_loop) and the     *)
(* route collect_data_now of the package.  Each reads the current value of *)
(* every series of the package's list and writes one batch.  What a        *)
(* series' accessor yields is the environment's choice: a value, None, or  *)
(* an exception.                                                           *)
(***************************************************************************)
\* timeseries.config.TIMESERIES: the series defined in code
CollectedSeries == <<"cpu_temperature", "cpu_usage">>

\* what ts.getCurrentValue() does
Raised == [raised |-> TRUE]

Returned(value) == [raised |-> FALSE, value |-> value]

ReadOutcomes == {Raised, Returned(Num(10)), Returned(NULL)}

\* the readings of the clock in the iterations of the Store's loop over n
\* datapoints: the clock does not go back
ClockSequences(n) ==
  {nows \in [1..n -> Timestamps] :
     \A i \in 1..(n - 1) : nows[i] <= nows[i + 1]}

\* a loop that an accessor's exception leaves
CycleAbandoned(datapoints) == << >>

\* except Exception as e: print(...): the datapoints gathered so far stay
\* and the loop goes on with the next series
AccessorFailed(datapoints) == datapoints

\* the loop of _collection_loop over series[i..]: the datapoints it gathers
RECURSIVE CycleLoop(_, _, _, _)
CycleLoop(datapoints, series, reads, i) ==
  IF i > Len(series) THEN datapoints
  ELSE IF reads[i].raised
  THEN CycleLoop(AccessorFailed(datapoints), series, reads, i + 1)
  ELSE CycleLoop(
         Append(datapoints,
                [timeseries_id |-> series[i], value |-> reads[i].value]),
         series, reads, i + 1)

\* a test that lets every value pass
AnyValue(value) == TRUE

\* if value is not None
IsNotNone(value) == value # NULL

\* the loop of collect_data_now over series[i..]
RECURSIVE CollectNowLoop(_, _, _, _, _)
CollectNowLoop(datapoints, series, reads, timestamp, i) ==
  IF i > Len(series) THEN datapoints
  ELSE IF reads[i].raised \/ ~IsNotNone(reads[i].value)
  THEN CollectNowLoop(datapoints, series, reads, timestamp, i + 1)
  ELSE CollectNowLoop(
         Append(datapoints,
                [timeseries_id |-> series[i], value |-> reads[i].value,
                 timestamp |-> <<timestamp>>]),
         series, reads, timestamp, i + 1)

SeriesReads == [1..Len(CollectedSeries) -> ReadOutcomes]

\* how many accessors raised
ReadErrors(reads) == Cardinality({i \in DOMAIN reads : reads[i].raised})

\* start(): the thread begins _collection_loop
CollectorStart ==
  /\ pc["collector"] = "idle"
  /\ pc' = [pc EXCEPT !["collector"] = "cycle"]
  /\ UNCHANGED <<tableVars, ret, gatewayVars, write_lock, op, engine_writer,
                 attempt, workerVars>>

\* one pass of the while loop up to time.sleep: the accessors yield reads,
\* the Store's loop reads the clock as nows, fails says that the engine
\* refuses the write; the outer except clause prints what the write raises
CollectionCycle(reads, nows, fails) ==
  LET datapoints == CycleLoop(<< >>, CollectedSeries, reads, 1)
      write == BatchLoop(timeseries_data, datapoints, nows, 1)
      called == datapoints # << >>
  IN  /\ pc["collector"] = "cycle"
      /\ timeseries_data' =
           IF called /\ ~fails
           THEN CommitOrDiscard(timeseries_data, write)
           ELSE timeseries_data
      /\ WithinRows(timeseries_data')
      /\ ret' = [op |-> "_collection_loop",
                 read_errors |-> ReadErrors(reads),
                 printed |-> called /\ (fails \/ write.raised)]
      /\ pc' = [pc EXCEPT !["collector"] = "sleep"]
      /\ UNCHANGED <<external_timeseries, timeseries_settings, gatewayVars,
                     write_lock, op, engine_writer, attempt, workerVars>>

CollectorCycle ==
  \E reads \in SeriesReads :
    \E fails \in WriteOutcomes(CycleLoop(<< >>, CollectedSeries, reads, 1)),
       nows \in ClockSequences(
                  Len(CycleLoop(<< >>, CollectedSeries, reads, 1))) :
      CollectionCycle(reads, nows, fails)

\* time.sleep(sampling_rate_seconds) returns; while self.running
CollectorSleep ==
  /\ pc["collector"] = "sleep"
  /\ pc' = [pc EXCEPT !["collector"] = "cycle"]
  /\ UNCHANGED <<tableVars, ret, gatewayVars, write_lock, op, engine_writer,
                 attempt, workerVars>>

\* POST /api/timeseries/collect on a request thread: now is the one reading
\* of the clock; an exception of the write leaves the route (status 500)
CollectDataNow(reads, now, fails) ==
  LET datapoints == CollectNowLoop(<< >>, CollectedSeries, reads, now, 1)
      nows == [i \in 1..Len(datapoints) |-> now]
      write == BatchLoop(timeseries_data, datapoints, nows, 1)
      called == datapoints # << >>
      failed == called /\ (fails \/ write.raised)
  IN  /\ timeseries_data' =
           IF called /\ ~fails
           THEN CommitOrDiscard(timeseries_data, write)
           ELSE timeseries_data
      /\ WithinRows(timeseries_data')
      /\ ret' = IF failed
                THEN [op |-> "collect_data_now", status |-> 500]
                ELSE [op |-> "collect_data_now", status |-> 200,
                      success |-> TRUE, timestamp |-> now,
                      count |-> Len(datapoints)]
      /\ UNCHANGED <<external_timeseries, timeseries_settings, gatewayVars,
                     lockVars>>

CollectNow ==
  \E reads \in SeriesReads, now \in Timestamps :
    \E fails \in WriteOutcomes(
                   CollectNowLoop(<< >>, CollectedSeries, reads, now, 1)) :
      CollectDataNow(reads, now, fails)

(***************************************************************************)
(* The collector object with start() and stop() and the threads that run   *)
(* _collection_loop, statement by statement: the test of the while loop,   *)
(* the try block of one cycle, and time.sleep after it.                    *)
(***************************************************************************)
\* app_state.server_config['timeseries_sampling_interval'] when the loop
\* reads it: a number of seconds, or no such entry (the read raises)
ConfigReads == {NULL, Num(5)}

\* the Thread objects not yet started
Unstarted == {t \in LoopThreads : loops[t].pc = "new"}

\* start(): returns when self.running, else sets the flag and starts a new
\* thread on _collection_loop
StartCollector ==
  /\ IF collector.running
     THEN /\ ret' = [op |-> "start", started |-> NULL]
          /\ UNCHANGED collectorVars
     ELSE /\ Unstarted # {}
          /\ LET t == CHOOSE u \in Unstarted : \A v \in Unstarted : u <= v
             IN  /\ collector' = [running |-> TRUE, thread |-> Num(t)]
                 /\ loops' = [loops EXCEPT ![t].pc = "while"]
                 /\ ret' = [op |-> "start", started |-> Num(t)]
  /\ UNCHANGED <<tableVars, gatewayVars, write_lock, pc, op, engine_writer,
                 attempt, automationVars>>

\* stop(): returns when not self.running, else clears the flag;
\* self.thread.join(timeout=5) returns when the thread has ended or after
\* five seconds, whichever comes first
StopCollector ==
  /\ collector' = [collector EXCEPT !.running = FALSE]
  /\ ret' = [op |-> "stop", was_running |-> collector.running]
  /\ UNCHANGED <<tableVars, gatewayVars, write_lock, pc, op, engine_writer,
                 attempt, loops, automationVars>>

\* while self.running
LoopWhile(t) ==
  /\ loops[t].pc = "while"
  /\ loops' = [loops EXCEPT ![t].pc =
                IF collector.running THEN "try" ELSE "ended"]
  /\ UNCHANGED <<tableVars, ret, gatewayVars, write_lock, pc, op,
                 engine_writer, attempt, collector, automationVars>>

\* the try block of one cycle: the read of the sampling interval, the loop
\* over the series and the batch insert; except Exception prints what any
\* of them raises.  A read that raises leaves sampling_rate_seconds as it
\* was, and nothing is collected.
LoopTry(t, read, reads, nows, fails) ==
  LET datapoints == CycleLoop(<< >>, CollectedSeries, reads, 1)
      write == BatchLoop(timeseries_data, datapoints, nows, 1)
      called == read # NULL /\ datapoints # << >>
  IN  /\ loops[t].pc = "try"
      /\ loops' = [loops EXCEPT
                    ![t].pc = "sleep",
                    ![t].sampling_rate_seconds =
                      IF read # NULL THEN read ELSE @]
      /\ timeseries_data' =
           IF called /\ ~fails
           THEN CommitOrDiscard(timeseries_data, write)
           ELSE timeseries_data
      /\ WithinRows(timeseries_data')
      /\ ret' = [op |-> "_collection_loop", thread |-> t,
                 printed |-> \/ read = NULL
                             \/ called /\ (fails \/ write.raised)]
      /\ UNCHANGED <<external_timeseries, timeseries_settings, gatewayVars,
                     write_lock, pc, op, engine_writer, attempt, collector,
                     automationVars>>

LoopCycle(t) ==
  \E read \in ConfigReads :
    IF read = NULL
    THEN LoopTry(t, read, [i \in 1..Len(CollectedSeries) |->
                             CHOOSE r \in ReadOutcomes : TRUE],
                 << >>, FALSE)
    ELSE \E reads \in SeriesReads :
           \E fails \in WriteOutcomes(
                          CycleLoop(<< >>, CollectedSeries, reads, 1)),
              nows \in ClockSequences(
                         Len(CycleLoop(<< >>, CollectedSeries, reads, 1))) :
             LoopTry(t, read, reads, nows, fails)

\* time.sleep(sampling_rate_seconds), outside the try block: the name is
\* unbound when no read of the interval has succeeded in this thread, and
\* the UnboundLocalError ends the thread
LoopSleep(t) ==
  /\ loops[t].pc = "sleep"
  /\ loops' = [loops EXCEPT ![t].pc =
                IF loops[t].sampling_rate_seconds = NULL THEN "died"
                ELSE "while"]
  /\ UNCHANGED <<tableVars, ret, gatewayVars, write_lock, pc, op,
                 engine_writer, attempt, collector, automationVars>>

(***************************************************************************)
(* run_automation (POST /api/automation/<automation_name>) on request      *)
(* threads, and the run_script thread that each accepted request starts.   *)
(* A step is one with-block on automation_lock, or the start of a thread   *)
(* or of a process.  The job_id of a request is the request's number.      *)
(***************************************************************************)
\* the names a request asks for: the configured ones and one that is not
RequestedNames == Automations \cup {"unknown"}

\* the frame of every step of these threads
automationFrame ==
  <<tableVars, gatewayVars, write_lock, pc, op, engine_writer, attempt,
    collectorVars>>

\* get_automation_config, and the check under automation_lock: the request
\* is answered with status 400, or goes on to start the script
RunCheck(r) ==
  /\ runs[r].pc = "idle"
  /\ \E name \in RequestedNames :
       IF name \notin Automations
       THEN /\ ret' = [op |-> "run_automation", status |-> 400,
                       error |-> "Invalid automation"]
            /\ UNCHANGED runs
       ELSE IF automation_state[name].running
       THEN /\ ret' = [op |-> "run_automation", status |-> 400,
                       error |-> "Automation already running"]
            /\ UNCHANGED runs
       ELSE /\ runs' = [runs EXCEPT ![r] = [pc |-> "accepted",
                                            automation_name |-> name]]
            /\ UNCHANGED ret
  /\ UNCHANGED <<automation_state, automationFrame>>

\* thread.start() / eventlet.spawn(run_script), time.sleep(0.1) and the
\* response with success and job_id
RunSpawn(r) ==
  /\ runs[r].pc = "accepted"
  /\ runs' = [runs EXCEPT ![r].pc = "spawned"]
  /\ ret' = [op |-> "run_automation", status |-> 200, success |-> TRUE,
             job_id |-> r]
  /\ UNCHANGED <<automation_state, automationFrame>>

\* run_script: the entry of the automation is replaced by a new one, which
\* has no key completed_at
ScriptInit(r) ==
  /\ runs[r].pc = "spawned"
  /\ automation_state' =
       [automation_state EXCEPT ![runs[r].automation_name] =
          [job_id |-> Num(r), running |-> TRUE, output |-> <<"Starting...">>,
           return_code |-> NULL, process |-> NULL, completed_at |-> NULL]]
  /\ runs' = [runs EXCEPT ![r].pc = "command"]
  /\ UNCHANGED <<ret, automationFrame>>

\* the command is built and subprocess.Popen starts the script; shlex.split
\* raising ValueError ends the run with return_code -1, and so does the
\* except clause when Popen raises
ScriptPopen(r) ==
  /\ runs[r].pc = "command"
  /\ \E outcome \in {"started", "bad_args", "raised"}, now \in Timestamps :
       LET name == runs[r].automation_name
           entry == automation_state[name]
       IN  IF outcome = "started"
           THEN /\ automation_state' =
                     [automation_state EXCEPT ![name].process = Num(r)]
                /\ runs' = [runs EXCEPT ![r].pc = "process"]
           ELSE /\ automation_state' =
                     [automation_state EXCEPT ![name] =
                        [entry EXCEPT
                           !.output = Append(@, "ERROR"),
                           !.running = FALSE,
                           !.return_code = Num(-1),
                           !.process = IF outcome = "raised" THEN NULL
                                       ELSE @,
                           !.completed_at = Num(now)]]
                /\ runs' = [runs EXCEPT ![r] = [pc |-> "idle",
                                                automation_name |-> ""]]
  /\ UNCHANGED <<ret, automationFrame>>

\* the lines of the script's output are appended, process.wait() returns:
\* running is cleared in the entry the automation has now
ScriptExit(r) ==
  /\ runs[r].pc = "process"
  /\ \E lines \in {<< >>, <<"line">>}, returncode \in {0, 1},
        now \in Timestamps :
       automation_state' =
         [automation_state EXCEPT ![runs[r].automation_name] =
            [@ EXCEPT !.output = @ \o lines, !.running = FALSE,
                      !.return_code = Num(returncode), !.process = NULL,
                      !.completed_at = Num(now)]]
  /\ runs' = [runs EXCEPT ![r] = [pc |-> "idle", automation_name |-> ""]]
  /\ UNCHANGED <<ret, automationFrame>>

(***************************************************************************)
(* retry_on_locked, the maintenance tool's wrapper: one call of a wrapped  *)
(* function, whose behaviour at each of its calls is drawn beforehand.     *)
(***************************************************************************)
\* RETRY_DELAY, in seconds
RETRY_DELAY == 2

\* what a call of the wrapped function does: it returns, or raises
Returns(value) == [kind |-> "return", text |-> value]

Raises(kind, message) == [kind |-> kind, text |-> message]

FuncOutcomes ==
  {Returns("rows"),
   Raises("OperationalError", "database is locked"),
   Raises("OperationalError", "no such table: timeseries_data"),
   Raises("ValueError", "invalid literal")}

\* 'database is locked' in str(e)
SaysLocked(e) == e.text = "database is locked"

\* a wrapper that retries after every error of the engine
RetryOperationalError(e, n) == e.kind = "OperationalError" /\ n < MAX_RETRIES

\* except sqlite3.OperationalError as e:
\*   if 'database is locked' in str(e) and attempt < MAX_RETRIES
RetryAfter(e, n) ==
  /\ e.kind = "OperationalError"
  /\ SaysLocked(e)
  /\ n < MAX_RETRIES

\* the wrapper before it is called: func is what the wrapped function does
\* at its first, second, ... call
InitRetry ==
  /\ InitTables
  /\ \E func \in [1..(MAX_RETRIES + 1) -> FuncOutcomes] :
       ret = [op |-> "retry_on_locked", func |-> func, calls |-> 0,
              slept |-> << >>, outcome |-> "none", result |-> NULL]
  /\ InitLock
  /\ InitGateway

retryFrame ==
  <<tableVars, gatewayVars, write_lock, op, engine_writer, workerVars>>

\* wrapper(*args, **kwargs) is called: for attempt in range(1, ...)
RetryStart ==
  /\ ret.op = "retry_on_locked"
  /\ pc[Doctor] = "idle"
  /\ ret.outcome = "none"
  /\ attempt' = 1
  /\ pc' = [pc EXCEPT ![Doctor] = "call"]
  /\ UNCHANGED <<ret, retryFrame>>

\* try: return func(*args, **kwargs), and the except clause
RetryCall ==
  /\ ret.op = "retry_on_locked"
  /\ pc[Doctor] = "call"
  /\ LET e == ret.func[attempt]
     IN  /\ ret' =
              IF e.kind = "return"
              THEN [ret EXCEPT !.calls = attempt, !.outcome = "returned",
                               !.result = <<e>>]
              ELSE IF RetryAfter(e, attempt)
              THEN [ret EXCEPT !.calls = attempt]
              ELSE [ret EXCEPT !.calls = attempt, !.outcome = "raised",
                               !.result = <<e>>]
         /\ pc' = [pc EXCEPT ![Doctor] =
                     IF e.kind # "return" /\ RetryAfter(e, attempt)
                     THEN "sleep" ELSE "idle"]
  /\ UNCHANGED <<attempt, retryFrame>>

\* time.sleep(RETRY_DELAY * attempt) returns, and the loop's next attempt
RetrySleep ==
  /\ ret.op = "retry_on_locked"
  /\ pc[Doctor] = "sleep"
  /\ ret' = [ret EXCEPT !.slept = Append(@, RETRY_DELAY * attempt)]
  /\ attempt' = attempt + 1
  /\ pc' = [pc EXCEPT ![Doctor] = "call"]
  /\ UNCHANGED retryFrame

(***************************************************************************)
(* query_minmax_batch statement by statement, in a request thread, while   *)
(* other threads write samples.  The method takes no lock and opens no     *)
(* transaction: each cursor.execute is a SELECT of its own, and reads the  *)
(* rows committed at the moment it runs.                                   *)
(***************************************************************************)
\* results[ts_id] = {'min': ..., 'max': ..., 'oldest': ...}
SetEntry(results, ts_id, entry) ==
  [k \in (DOMAIN results) \cup {ts_id} |->
     IF k = ts_id THEN entry ELSE results[k]]

\* the lists of ids a request asks for: one series, and both
BatchIds == {<<"cpu_temperature">>, <<"garage_temp", "cpu_temperature">>}

\* the time range a request asks for: every instant of the clock
BatchRanges == {<<0, MaxTs + 1>>}

\* results = {}, conn = self._get_connection(), cursor = conn.cursor()
BatchStart ==
  /\ pc["api"] = "idle"
  /\ \E ids \in BatchIds, range \in BatchRanges :
       op' = [op EXCEPT !["api"] =
                [method |-> "query_minmax_batch", store |-> PackageStore,
                 timeseries_ids |-> ids, start_time |-> range[1],
                 end_time |-> range[2], i |-> 1, row |-> NULL,
                 results |-> << >>]]
  /\ pc' = [pc EXCEPT !["api"] = "for"]
  /\ UNCHANGED <<tableVars, ret, gatewayVars, write_lock, engine_writer,
                 attempt, workerVars>>

\* for ts_id in timeseries_ids: SELECT MIN(value), MAX(value); row is kept
\* when min_val is not None, and the loop goes to the next id otherwise
BatchMinMax ==
  LET f == op["api"]
  IN  /\ pc["api"] = "for"
      /\ f.i <= Len(f.timeseries_ids)
      /\ LET rows == SelectNotNull(timeseries_data, f.timeseries_ids[f.i],
                                   f.start_time, f.end_time)
         IN  IF SqlMin(rows) # NULL
             THEN /\ op' = [op EXCEPT !["api"] =
                             [f EXCEPT !.row = <<SqlMin(rows), SqlMax(rows)>>]]
                  /\ pc' = [pc EXCEPT !["api"] = "oldest"]
             ELSE /\ op' = [op EXCEPT !["api"] = [f EXCEPT !.i = f.i + 1]]
                  /\ UNCHANGED pc
      /\ UNCHANGED <<tableVars, ret, gatewayVars, write_lock, engine_writer,
                     attempt, workerVars>>

\* SELECT value ... ORDER BY timestamp ASC LIMIT 1, and the entry of ts_id
BatchOldest ==
  LET f == op["api"]
      ts_id == f.timeseries_ids[f.i]
      rows == SelectNotNull(timeseries_data, ts_id, f.start_time, f.end_time)
      entry == [min |-> f.row[1], max |-> f.row[2],
                oldest |-> OldestValue(rows)]
  IN  /\ pc["api"] = "oldest"
      /\ op' = [op EXCEPT !["api"] =
                  [f EXCEPT !.results = SetEntry(f.results, ts_id, entry),
                            !.row = NULL, !.i = f.i + 1]]
      /\ pc' = [pc EXCEPT !["api"] = "for"]
      /\ UNCHANGED <<tableVars, ret, gatewayVars, write_lock, engine_writer,
                     attempt, workerVars>>

\* return results, after the last id; finally: conn.close()
BatchReturn ==
  LET f == op["api"]
  IN  /\ pc["api"] = "for"
      /\ f.i > Len(f.timeseries_ids)
      /\ ret' = [op |-> "query_minmax_batch",
                 timeseries_ids |-> f.timeseries_ids,
                 start_time |-> f.start_time, end_time |-> f.end_time,
                 results |-> f.results]
      /\ op' = [op EXCEPT !["api"] = NoCall]
      /\ pc' = [pc EXCEPT !["api"] = "idle"]
      /\ UNCHANGED <<tableVars, gatewayVars, write_lock, engine_writer,
                     attempt, workerVars>>

(***************************************************************************)
(* Specifications.                                                         *)
(***************************************************************************)
vars == <<tableVars, ret, lockVars, gatewayVars>>

\* the state after the Store objects are constructed
Init == InitStore /\ InitLock /\ InitGateway

\* the write operations on samples
Next == Insert \/ InsertBatch \/ DeleteOldData

Spec == Init /\ [][Next]_vars

\* single writes and range queries
NextQuery == Insert \/ DeleteOldData \/ QueryRange

SpecQuery == Init /\ [][NextQuery]_vars

\* the threads of the dashboard process and the maintenance tool, interleaved
NextLock ==
  \/ \E t \in Threads : Call(t)
  \/ \E t \in Threads : Acquire(t)
  \/ \E t \in Threads : Begin(t)
  \/ \E t \in Threads : Locked(t)
  \/ \E t \in Threads : Commit(t)
  \/ \E t \in Threads : ReadUnderLock(t)
  \/ \E t \in Threads : Release(t)
  \/ \E t \in Threads : Read(t)
  \/ DoctorStart
  \/ DoctorAnswer
  \/ DoctorDelete
  \/ DoctorLocked
  \/ DoctorCommit

SpecLock == Init /\ [][NextLock]_vars

\* ingest requests and registration calls, one at a time
NextIngest ==
  RegisterExternal \/ DeleteExternal \/ IngestSingle \/ IngestBatch

SpecIngest == Init /\ [][NextIngest]_vars

\* the connection thread, start() and stop()
NextGateway == GwStart \/ GwStop \/ GwThread

SpecGateway == Init /\ [][NextGateway]_vars

\* the connection thread is scheduled: a step it can take is taken
SpecGatewayFair == SpecGateway /\ WF_vars(GwThread)

\* the downsampler applied to every ordered input and threshold
NextLttb == Downsample

SpecLttb == InitLttb /\ [][NextLttb]_vars

\* sample writes and range queries that ask for at most max_points points
NextMaxPoints == Insert \/ QueryRangeMaxPoints

SpecMaxPoints == Init /\ [][NextMaxPoints]_vars

\* sample writes, deletes and queries for the latest rows
NextLatest == Insert \/ DeleteOldData \/ QueryLatest

SpecLatest == Init /\ [][NextLatest]_vars

\* sample writes and aggregate queries of one series
NextMinmax == Insert \/ QueryMinmax

SpecMinmax == Init /\ [][NextMinmax]_vars

\* sample writes and aggregate queries of several series
NextMinmaxBatch == Insert \/ QueryMinmaxBatch

SpecMinmaxBatch == Init /\ [][NextMinmaxBatch]_vars

\* the batch query of a request thread, and writes that commit between its
\* statements
NextMinmaxSteps ==
  \/ Insert
  \/ DeleteOldData
  \/ BatchStart
  \/ BatchMinMax
  \/ BatchOldest
  \/ BatchReturn

SpecMinmaxSteps == Init /\ [][NextMinmaxSteps]_vars

\* registrations by two request threads
NextRegister ==
  \E t \in Requests :
    RegCall(t) \/ Acquire(t) \/ RegSelect(t) \/ RegCommit(t) \/ RegReturn(t)

SpecManager ==
  Init /\ [][OnSensorsDiscovered \/ OnDataReceived]_vars

SpecThreads ==
  InitThreads
    /\ [][(\E t \in Conns : ConnStep(t)) \/ ReaderStep(Reader)]_vars

SpecManagedGateway ==
  Init /\ [][\/ GwStart
             \/ GwStop
             \/ LoopTest
             \/ Connect
             \/ SendDiscover
             \/ DiscoverStopped
             \/ ManagedDiscoverRecv
             \/ SendSubscribe
             \/ ManagedStreamRecv
             \/ StreamEnd
             \/ Finally
             \/ Sleep]_vars

\* start() and stop() of the collector and the threads of its loop
NextCollectorThreads ==
  \/ StartCollector
  \/ StopCollector
  \/ \E t \in LoopThreads : LoopWhile(t)
  \/ \E t \in LoopThreads : LoopCycle(t)
  \/ \E t \in LoopThreads : LoopSleep(t)

SpecCollectorThreads == Init /\ [][NextCollectorThreads]_vars

\* run requests and the script threads they start
NextAutomation ==
  \E r \in RunRequests :
    \/ RunCheck(r)
    \/ RunSpawn(r)
    \/ ScriptInit(r)
    \/ ScriptPopen(r)
    \/ ScriptExit(r)

SpecAutomation == Init /\ [][NextAutomation]_vars

\* the callbacks of a gateway that has a sensor named like a built-in series
SpecNamesake == Init /\ [][NamesakeDiscovered \/ NamesakeData]_vars

SpecCollector ==
  Init /\ [][CollectorStart \/ CollectorCycle \/ CollectorSleep
               \/ CollectNow]_vars

SpecRegister == InitRegister /\ [][NextRegister]_vars

\* one call of a function wrapped in retry_on_locked
SpecRetry == InitRetry /\ [][RetryStart \/ RetryCall \/ RetrySleep]_vars

(***************************************************************************)
(* Claims about the Store's sample operations.                             *)
(***************************************************************************)
\* at most one row per (timeseries_id, timestamp)
UniqueRows ==
  \A r \in timeseries_data :
    Conflicting(timeseries_data, r.timeseries_id, r.timestamp) = {r}

\* after an insert the row written is the one row at its key
LastWriteWins ==
  (ret.op = "insert_datapoint" /\ ~ret.raised) =>
    Conflicting(timeseries_data, ret.row.timeseries_id, ret.row.timestamp)
      = {ret.row}

\* an insert of a row that is already stored changes nothing
InsertIdempotent ==
  (/\ ret'.op = "insert_datapoint"
   /\ ~ret'.raised
   /\ ret'.row \in timeseries_data)
    => timeseries_data' = timeseries_data

\* C1: after any sequence of insert, insert_batch and delete the table holds
\* at most one row per (series_id, timestamp); an insert at a key replaces
\* the value stored there, and an insert of a stored (series_id, timestamp,
\* value) leaves the table as it was.
C1_UniqueUpsert ==
  [](UniqueRows /\ LastWriteWins) /\ [][InsertIdempotent]_vars

\* an insert has replaced a row that held another value at its key, next to
\* a row at another key
C1_Witness ==
  /\ ret.op = "insert_datapoint"
  /\ ~ret.raised
  /\ ret.replaced # {}
  /\ ret.replaced # {ret.row}
  /\ Cardinality(timeseries_data) > 1

\* the rows query_range has to return: those of the series with
\* start_time <= timestamp <= end_time
RowsInRange ==
  {r \in timeseries_data : /\ r.timeseries_id = ret.timeseries_id
                           /\ ret.start_time <= r.timestamp
                           /\ r.timestamp <= ret.end_time}

\* C2: query_range without max_points returns exactly the stored rows of
\* the series with start <= timestamp <= end, in strictly ascending order of
\* timestamp.
C2_RangeQuery ==
  ret.op = "query_range" =>
    /\ {ret.data[i] : i \in 1..Len(ret.data)} = {Point(r) : r \in RowsInRange}
    /\ \A i \in 1..Len(ret.data) : \A j \in 1..Len(ret.data) :
         i < j => ret.data[i].timestamp < ret.data[j].timestamp

\* a query has returned two rows, the first at the start and the last at the
\* end of its range
C2_Witness ==
  /\ ret.op = "query_range"
  /\ Len(ret.data) >= 2
  /\ ret.data[1].timestamp = ret.start_time
  /\ ret.data[Len(ret.data)].timestamp = ret.end_time

\* C3: a batch in which a datapoint fails stores nothing and leaves every
\* stored row as it was; a batch in which none fails stores all its rows.
C3_BatchAtomic ==
  [][ret'.op = "insert_datapoints_batch" =>
       IF ret'.raised
       THEN timeseries_data' = timeseries_data
       ELSE /\ ret'.rows \subseteq timeseries_data'
            /\ timeseries_data' \ ret'.rows \subseteq timeseries_data]_vars

\* a batch failed after the loop had written a row, with rows stored before
C3_Witness ==
  /\ ret.op = "insert_datapoints_batch"
  /\ ret.raised
  /\ ret.done >= 1
  /\ timeseries_data # {}

(***************************************************************************)
(* Claims about the Store's locking.                                       *)
(***************************************************************************)
\* thread t is inside the with-statement of a write method
InWriteSection(t) ==
  pc[t] \in {"section", "txn", "release"} /\ op[t].method \in WriteMethods

\* process p is a writer in the middle of its write path: a thread inside
\* the write section, the maintenance tool between its DELETE and its commit
Writing(p) == IF p = Doctor THEN pc[Doctor] = "txn" ELSE InWriteSection(p)

\* C4 as stated: at any time at most one writer, the maintenance tool's bulk
\* delete included, is in its write path
C4_OneWriterAmongAll == Cardinality({p \in Procs : Writing(p)}) <= 1

\* the lock of a Store object is held by exactly the thread that is inside
\* a with-statement of that object, and by one thread at most
SectionExclusive ==
  /\ \A t \in Threads :
       pc[t] \in {"section", "txn", "release"}
         <=> (op[t] # NoCall /\ write_lock[op[t].store] = t)
  /\ \A t1, t2 \in Threads :
       (InWriteSection(t1) /\ InWriteSection(t2)
          /\ op[t1].store = op[t2].store) => t1 = t2

\* a thread that arrived at a lock which another thread holds stays there
WaitsWhileTaken ==
  \A t \in Threads :
    (pc[t] = "acquire" /\ write_lock[op[t].store] # Free) =>
      pc'[t] = "acquire"

\* the engine's write transaction is held by the one process that is between
\* its first writing statement and its commit
EngineExclusive == \A p \in Procs : (pc[p] = "txn") <=> (engine_writer = p)

\* C4 amended: per Store object at most one thread is inside a write method's
\* section and a thread that finds it taken waits; the maintenance tool is
\* outside the section and is serialised by the engine's write transaction
C4_OneWriterPerStore ==
  [](SectionExclusive /\ EngineExclusive) /\ [][WaitsWhileTaken]_vars

\* a writer waits at the section of the Store whose section another writer
\* is in, mid-transaction
C4_Witness ==
  \E t1, t2 \in Threads :
    /\ t1 # t2
    /\ pc[t1] = "txn" /\ op[t1].method \in WriteMethods
    /\ pc[t2] = "acquire" /\ op[t2].method \in WriteMethods
    /\ op[t1].store = op[t2].store

\* C5 as stated: a thread that runs a read method neither holds nor waits for
\* a Store's lock
C5_ReadsTakeNoLock ==
  \A t \in Threads :
    op[t].method \in ReadMethods =>
      pc[t] \notin {"acquire", "section", "release"}

(***************************************************************************)
(* Claims about registration and ingest.                                   *)
(***************************************************************************)
\* C6 as stated: a register_external call under the id of a built-in series
\* is rejected and leaves no external metadata for that id
C6_BuiltinIdRejected ==
  (ret.op = "register_external_timeseries" /\ IsBuiltin(ret.timeseries_id))
    => (ret.raised /\ ~Existed(external_timeseries, ret.timeseries_id))

\* C7 as stated: an ingest call that is rejected (a missing field, an id of a
\* built-in series) leaves the samples and the external metadata as they were
C7_RejectedIngestChangesNothing ==
  [][(ret'.op = "ingest" /\ ret'.status = 400) =>
       UNCHANGED <<timeseries_data, external_timeseries>>]_vars

(***************************************************************************)
(* Claims about the gateway client.                                        *)
(***************************************************************************)
\* the events of an epoch that discovers, subscribes and streams
StreamingEpoch ==
  <<"connect", "discover", "sensors", "registered", "subscribe">>

\* C8: while the connection is not stopped, an epoch that has ended is
\* followed by a new connection attempt, and a connection attempt leads to
\* streaming after a discovery round trip of its own, unless the connect,
\* a send, the reply or the callback fails
C8_ReconnectsAndResumes ==
  /\ (gw_pc = "finally" /\ running) ~> (gw_pc = "connect" \/ ~running)
  /\ (gw_pc = "connect" /\ running) ~>
       \/ gw_pc = "stream" /\ epoch_log = StreamingEpoch
       \/ exc # "none"
       \/ ~running

\* the client streams again after a second discovery round trip
C8_Witness ==
  /\ running
  /\ gw_pc = "stream"
  /\ discoveries = 2
  /\ epoch_log = StreamingEpoch

\* C9: in an epoch, discover is what follows the connect, subscribe is sent
\* only after the sensors reply was received and handed to the registry, and
\* the data callback runs only after subscribe was sent
C9_EpochOrder ==
  /\ gw_pc = "discover" => epoch_log = <<"connect">>
  /\ \A i \in DOMAIN epoch_log :
       /\ epoch_log[i] = "connect" => i = 1
       /\ epoch_log[i] = "discover" => (i = 2 /\ epoch_log[1] = "connect")
       /\ epoch_log[i] = "subscribe" =>
            \E j, k \in 1..(i - 1) :
              /\ j < k
              /\ epoch_log[j] = "sensors"
              /\ epoch_log[k] = "registered"
              /\ \E d \in 1..(j - 1) : epoch_log[d] = "discover"
       /\ epoch_log[i] = "data" =>
            \E j \in 1..(i - 1) : epoch_log[j] = "subscribe"

\* the data callback has run in an epoch that followed an earlier one
C9_Witness ==
  /\ discoveries = 2
  /\ epoch_log = Append(StreamingEpoch, "data")

\* a line that json.loads turns into an object
WellFormedObject(line) == line.json /\ line.object

\* C10 as stated: while streaming, a line that is not a well-formed JSON
\* object is skipped with the socket open and the thread still streaming,
\* and a zero-length read ends the epoch
C10_MalformedLineSkipped ==
  [][/\ \A line \in Lines :
          (StreamPass(Received(line)) /\ ~WellFormedObject(line)) =>
            (gw_pc' = "stream" /\ socket' = "connected")
     /\ StreamPass(ZeroLengthRead) => gw_pc' = "finally"]_vars

\* the exceptions an epoch can end with: a socket error, a timeout, an
\* invalid reply or a closed connection, a reply that is not an object, and
\* an exception raised inside a callback
EpochErrors ==
  {"OSError", "TimeoutError", "ConnectionError", "AttributeError", "callback"}

\* C11: the thread has left its loop only when the stop flag is set, and an
\* epoch that ended with any exception while the flag is unset is followed
\* by another connection attempt, unless stop() is called
C11_LoopNeverExits ==
  /\ [](gw_pc = "exited" => ~running)
  /\ \A e \in EpochErrors :
       (gw_pc = "finally" /\ exc = e /\ running) ~>
         (gw_pc = "connect" \/ ~running)

\* the thread is about to connect again after an epoch that a callback's
\* exception ended while streaming
C11_Witness ==
  /\ running
  /\ gw_pc = "connect"
  /\ epoch_log = Append(StreamingEpoch, "data")
  /\ last_recv = Received(Line(TRUE, TRUE, TRUE, "data", 1))

(***************************************************************************)
(* C12.  The downsampler returns its input unchanged when the input has at *)
(* most threshold points or threshold is below 3; otherwise it returns     *)
(* exactly threshold points, the first of them the input's first point and *)
(* the last of them the input's last point.                                *)
(***************************************************************************)
C12_DownsampleShape ==
  ret.op = "_downsample_lttb" =>
    LET n == Len(ret.data)
        t == ret.threshold
    IN  IF n <= t \/ t < 3
        THEN ret.sampled = ret.data
        ELSE /\ Len(ret.sampled) = t
             /\ ret.sampled[1] = ret.data[1]
             /\ ret.sampled[t] = ret.data[n]

\* five points reduced to three
C12_Witness ==
  /\ ret.op = "_downsample_lttb"
  /\ Len(ret.data) = MaxPoints
  /\ ret.threshold = 3
  /\ Len(ret.sampled) = 3
  /\ ret.sampled[2] = ret.data[3]

(***************************************************************************)
(* C13.  A range query with max_points = N, N >= 1, returns at most N      *)
(* samples.                                                                *)
(***************************************************************************)
C13_AtMostMaxPoints ==
  (/\ ret.op = "query_range"
   /\ ret.max_points # NULL
   /\ ret.max_points[1] >= 1) => Len(ret.data) <= ret.max_points[1]

(***************************************************************************)
(* C14.  An insert never fails because of its value: a value that cannot   *)
(* be converted to a number is stored as null, and a row with a null value *)
(* is returned by query_range with value null.                             *)
(***************************************************************************)
\* an insert of value: no exception, and null stored when value is no number
ValueAccepted(sid, value, timestamp, now) ==
  InsertCall(sid, value, timestamp, now) =>
    /\ ~ret'.raised
    /\ ret'.row \in timeseries_data'
    /\ value \notin {Num(x) : x \in Numbers} => ret'.row.value = NULL

\* a range query returns the rows with a null value, with value null
NullRowsReturned ==
  ret.op = "query_range" =>
    \A r \in RowsInRange :
      r.value = NULL =>
        \E i \in 1..Len(ret.data) :
          ret.data[i] = [timestamp |-> r.timestamp, value |-> NULL]

C14_ValueNeverFails ==
  /\ [][\A sid \in SeriesIds, value \in PyValues,
          timestamp \in OptTimestamps, now \in Timestamps :
          ValueAccepted(sid, value, timestamp, now)]_vars
  /\ []NullRowsReturned

(***************************************************************************)
(* C15.  query_latest returns min(limit, number of stored rows of the      *)
(* series) rows, those of the series with the greatest timestamps, in      *)
(* ascending order of timestamp.                                           *)
(***************************************************************************)
RowsOfSeries == {r \in timeseries_data : r.timeseries_id = ret.timeseries_id}

C15_LatestRows ==
  ret.op = "query_latest" =>
    LET returned == {ret.data[i] : i \in 1..Len(ret.data)}
    IN  /\ Len(ret.data) = Min(ret.limit, Cardinality(RowsOfSeries))
        /\ returned \subseteq {Point(r) : r \in RowsOfSeries}
        /\ \A r \in RowsOfSeries :
             Point(r) \notin returned =>
               \A p \in returned : r.timestamp < p.timestamp
        /\ \A i \in 1..Len(ret.data) : \A j \in 1..Len(ret.data) :
             i < j => ret.data[i].timestamp < ret.data[j].timestamp

\* of two stored rows of the series the one asked for is the later one
C15_Witness ==
  /\ ret.op = "query_latest"
  /\ ret.limit = 1
  /\ Cardinality(RowsOfSeries) = 2
  /\ Len(ret.data) = 1
  /\ ret.data[1].timestamp = MaxTs

(***************************************************************************)
(* C16.  query_minmax returns the minimum and the maximum over exactly the *)
(* non-null values of the series' rows with start <= timestamp <= end, so  *)
(* min <= max; it returns nothing exactly when the range holds no non-null *)
(* row.                                                                    *)
(***************************************************************************)
\* the non-null values of the rows of series sid in the range of the call
ValuesInRange(sid) ==
  {r.value[1] : r \in {q \in timeseries_data :
                          /\ q.timeseries_id = sid
                          /\ ret.start_time <= q.timestamp
                          /\ q.timestamp <= ret.end_time
                          /\ q.value # NULL}}

\* d.min and d.max are the least and the greatest of values
IsMinMax(d, values) ==
  /\ d.min # NULL /\ d.min[1] \in values
  /\ d.max # NULL /\ d.max[1] \in values
  /\ \A v \in values : d.min[1] <= v /\ v <= d.max[1]
  /\ d.min[1] <= d.max[1]

C16_MinMax ==
  ret.op = "query_minmax" =>
    IF ValuesInRange(ret.timeseries_id) = {}
    THEN ret.result = NULL
    ELSE /\ ret.result # NULL
         /\ IsMinMax(ret.result[1], ValuesInRange(ret.timeseries_id))

\* a range with two values
C16_Witness ==
  /\ ret.op = "query_minmax"
  /\ ret.result # NULL
  /\ ret.result[1].min[1] < ret.result[1].max[1]

(***************************************************************************)
(* C17.  query_minmax_batch has an entry for exactly the requested ids     *)
(* with a non-null row in the range; the entry holds min, max and oldest,  *)
(* the value of the non-null row with the smallest timestamp in the range. *)
(***************************************************************************)
C17_MinMaxOldest ==
  ret.op = "query_minmax_batch" =>
    LET ids == {ret.timeseries_ids[i] : i \in 1..Len(ret.timeseries_ids)}
    IN  /\ DOMAIN ret.results = {sid \in ids : ValuesInRange(sid) # {}}
        /\ \A sid \in DOMAIN ret.results :
             /\ IsMinMax(ret.results[sid], ValuesInRange(sid))
             /\ \E r \in timeseries_data :
                  /\ r.timeseries_id = sid
                  /\ r.value # NULL
                  /\ ret.start_time <= r.timestamp
                  /\ r.timestamp <= ret.end_time
                  /\ \A q \in timeseries_data :
                       (/\ q.timeseries_id = sid
                        /\ q.value # NULL
                        /\ ret.start_time <= q.timestamp
                        /\ q.timestamp <= ret.end_time)
                         => r.timestamp <= q.timestamp
                  /\ ret.results[sid].oldest = r.value

\* the oldest value of a series is its greatest, not its least
C17_Witness ==
  /\ ret.op = "query_minmax_batch"
  /\ \E sid \in DOMAIN ret.results :
       /\ ret.results[sid].oldest = ret.results[sid].max
       /\ ret.results[sid].oldest # ret.results[sid].min
  /\ DOMAIN ret.results # {ret.timeseries_ids[i] :
                              i \in 1..Len(ret.timeseries_ids)}

(***************************************************************************)
(* C18.  register_external_timeseries returns true exactly when no         *)
(* descriptor of the id was stored immediately before it wrote; after any  *)
(* registrations there is one descriptor per registered id, with the       *)
(* metadata of the most recent call, also when two registrations of one id *)
(* run at the same time.                                                   *)
(***************************************************************************)
\* at most one descriptor per id
OneDescriptorPerId ==
  \A r \in external_timeseries : \A q \in external_timeseries :
    r.id = q.id => r = q

\* the write of thread t: existed is what the table held just before, the
\* call's row replaces the descriptor of its id and no other
RegisterWrites(t) ==
  (pc[t] = "selected" /\ pc'[t] = "release") =>
    /\ op[t].existed = Existed(external_timeseries, op[t].row.id)
    /\ external_timeseries' =
         {r \in external_timeseries : r.id # op[t].row.id} \cup {op[t].row}

\* the return of thread t: true exactly when its SELECT found no descriptor
RegisterReturns(t) ==
  (pc[t] = "release" /\ pc'[t] = "idle") =>
    /\ ret'.newly = ~op[t].existed
    /\ ret'.row = op[t].row

C18_RegisterUpserts ==
  /\ []OneDescriptorPerId
  /\ [][\A t \in Requests : RegisterWrites(t) /\ RegisterReturns(t)]_vars

\* a registration has updated the descriptor of its id while the other
\* thread, registering the same id under another name, waits for the lock
C18_Witness ==
  /\ ret.op = "register_external_timeseries"
  /\ ~ret.newly
  /\ ret.row \in external_timeseries
  /\ \E t \in Requests :
       /\ t # ret.thread
       /\ pc[t] = "acquire"
       /\ op[t].row.id = ret.row.id
       /\ op[t].row # ret.row

(***************************************************************************)
(* C19.  delete_external_timeseries removes the descriptor of its id and   *)
(* nothing else: every sample, those of the id included, and every other   *)
(* descriptor stay as they were; it returns true exactly when a descriptor *)
(* of the id was stored.                                                   *)
(***************************************************************************)
C19_DeleteOnlyDescriptor ==
  [][ret'.op = "delete_external_timeseries" =>
       /\ timeseries_data' = timeseries_data
       /\ external_timeseries' =
            {r \in external_timeseries : r.id # ret'.timeseries_id}
       /\ ret'.deleted =
            (\E r \in external_timeseries : r.id = ret'.timeseries_id)]_vars

\* a descriptor was deleted; the samples of its id and another descriptor
\* are stored
C19_Witness ==
  /\ ret.op = "delete_external_timeseries"
  /\ ret.deleted
  /\ \E r \in timeseries_data : r.timeseries_id = ret.timeseries_id
  /\ external_timeseries # {}

(***************************************************************************)
(* C20.  A datapoint ingested without a timestamp is stored at the         *)
(* server's current time, in the batch form as in the single form.         *)
(***************************************************************************)
\* the single form has stored a row of the id at the clock's reading
SingleStoredAtNow(data, now) ==
  (/\ IngestSingleCall(data, now)
   /\ DOMAIN data # {}
   /\ SingleError(data) = "none"
   /\ "timestamp" \notin DOMAIN data)
    => \E r \in timeseries_data' :
         r.timeseries_id = data["id"] /\ r.timestamp = now

\* the batch form has stored a row at the clock's reading for each of its
\* datapoints without a timestamp
BatchStoredAtNow(body, now) ==
  LET datapoints == body["datapoints"]
  IN  (/\ IngestBatchCall(body, now)
       /\ ValidateAndRegister(external_timeseries, datapoints,
                              DictGet(body, "gateway", NULL), 1).error = "none")
        => \A i \in 1..Len(datapoints) :
             "timestamp" \notin DOMAIN datapoints[i] =>
               \E r \in timeseries_data' :
                 /\ r.timeseries_id = datapoints[i]["id"]
                 /\ r.timestamp = now

C20_StoredAtCurrentTime ==
  [][/\ \A data \in SingleBodies, now \in Timestamps :
          SingleStoredAtNow(data, now)
     /\ \A body \in BatchBodies, now \in Timestamps :
          BatchStoredAtNow(body, now)]_vars

(***************************************************************************)
(* C28.  Message types the client does not know.                           *)
(***************************************************************************)
\* the message types of the protocol that the client reads
KnownTypes == {"sensors", "data"}

\* a JSON object with a type that the client does not know
UnknownType(r) ==
  /\ r.kind = "line"
  /\ ~NotMessage(parse_message(r.line))
  /\ ~GetRaises(parse_message(r.line))
  /\ parse_message(r.line).type \notin KnownTypes

\* C28: a received message of an unknown type is ignored in every protocol
\* state: whether it arrives as the reply awaited by _discover or in the
\* streaming loop, no callback runs, nothing is raised and the connection
\* stays in the state it was in
C28_UnknownTypeIgnored ==
  [][\A r \in RecvOutcomes :
       (UnknownType(r) /\ (DiscoverPass(r) \/ StreamPass(r)))
         => /\ gw_pc' = gw_pc
            /\ exc' = "none"
            /\ epoch_log' = epoch_log
            /\ socket' = socket]_vars

(***************************************************************************)
(* C21.  Readings of sensors that the manager knows.                       *)
(***************************************************************************)
\* a reading that names a sensor of the dict cache and carries a ts
Accepted(cache, reading) ==
  /\ IsDict(reading)
  /\ "id" \in DOMAIN reading
  /\ DictGet(reading, "ts", NULL) # NULL
  /\ reading["id"] \in DOMAIN cache

ReadingValue(reading) == DictGet(reading, "value", NULL)

\* the rows of a table under one key
RowsAt(table, sid, ts) ==
  {row \in table : row.timeseries_id = sid /\ row.timestamp = ts}

\* readings[i] is the last accepted reading of its sensor in the message
LastOfSensor(cache, readings, i) ==
  \A k \in (i + 1)..Len(readings) :
    Accepted(cache, readings[k]) => readings[k]["id"] # readings[i]["id"]

\* readings[i] is the last accepted reading with a value under its key
LastWithValueAtKey(cache, readings, i) ==
  \A k \in (i + 1)..Len(readings) :
    (Accepted(cache, readings[k]) /\ ReadingValue(readings[k]) # NULL)
      => \/ readings[k]["id"] # readings[i]["id"]
         \/ readings[k]["ts"] # readings[i]["ts"]

\* no accepted reading of the message has a value under the key of readings[i]
NoValueAtKey(cache, readings, i) ==
  \A k \in 1..Len(readings) :
    (Accepted(cache, readings[k]) /\ ReadingValue(readings[k]) # NULL)
      => \/ readings[k]["id"] # readings[i]["id"]
         \/ readings[k]["ts"] # readings[i]["ts"]

\* the step is a call of _on_data_received with these readings, whatever the
\* clock read and whatever the engine did (the first two conjuncts follow
\* from the third and are tested first)
DataReceivedCall(readings) ==
  /\ ret'.op = "_on_data_received"
  /\ _timeseries' = ReceivedLoop(_timeseries, << >>, readings, 1).cache
  /\ \E now \in Timestamps, fails \in BOOLEAN :
       DataReceived(readings, now, fails)

\* C21: when _on_data_received has run over a message, every reading of a
\* known sensor has set the holder's value and timestamp to its value and ts
\* (the last such reading of the sensor stands); when the Store took the
\* write, every such reading with a value has exactly one row under its
\* sensor and its own ts, holding its value, whatever the clock read at
\* arrival; and a reading whose value is null leaves the rows under its key
\* as they were
C21_KnownReadingCachedAndStored ==
  [][(ret'.op = "_on_data_received" /\ ~ret'.raised)
       => \A readings \in ReadingLists :
            (/\ \E i \in 1..Len(readings) :
                  Accepted(_timeseries, readings[i])
             /\ DataReceivedCall(readings))
              => \A i \in 1..Len(readings) :
                   Accepted(_timeseries, readings[i])
                     => LET sid == readings[i]["id"]
                            ts == readings[i]["ts"]
                            value == ReadingValue(readings[i])
                        IN  /\ LastOfSensor(_timeseries, readings, i)
                                 => /\ _timeseries'[sid].value = value
                                    /\ _timeseries'[sid].timestamp = ts
                            /\ (value # NULL /\ ~ret'.logged)
                                 => /\ Cardinality(
                                         RowsAt(timeseries_data', sid, ts[1])) = 1
                                    /\ LastWithValueAtKey(_timeseries, readings, i)
                                         => Row(sid, ts[1], FloatValue(value))
                                              \in timeseries_data'
                                    /\ \A row \in
                                            timeseries_data' \ timeseries_data :
                                         \E k \in 1..Len(readings) :
                                           /\ Accepted(_timeseries, readings[k])
                                           /\ row.timeseries_id = readings[k]["id"]
                                           /\ <<row.timestamp>> = readings[k]["ts"]
                            /\ NoValueAtKey(_timeseries, readings, i)
                                 => RowsAt(timeseries_data', sid, ts[1])
                                      = RowsAt(timeseries_data, sid, ts[1])]_vars

\* a holder that a reading with a value updated while its row was written
\* at the reading's ts, and a holder that a reading without a value updated
C21_Witness ==
  /\ ret.op = "_on_data_received"
  /\ ~ret.raised
  /\ ~ret.logged
  /\ "patio_temp" \in DOMAIN _timeseries
  /\ _timeseries["patio_temp"].value = NULL
  /\ _timeseries["patio_temp"].timestamp = <<2>>
  /\ timeseries_data = {Row("patio_temp", 1, Num(12))}

(***************************************************************************)
(* C22.  Readings of sensors that no discovery has announced.              *)
(***************************************************************************)
\* a reading that names a sensor which the dict cache does not hold
Unannounced(cache, reading) ==
  /\ IsDict(reading)
  /\ "id" \in DOMAIN reading
  /\ reading["id"] \notin DOMAIN cache

AllDicts(readings) == \A i \in 1..Len(readings) : IsDict(readings[i])

\* C22: a reading whose id is not in the manager's dict is dropped: the call
\* of _on_data_received makes no entry for the id, leaves the rows of the id
\* in the Store as they were and does not raise; the readings of known
\* sensors in the same message still update their holders and, when the
\* Store takes the write, have their rows
C22_UnannouncedReadingDropped ==
  [][ret'.op = "_on_data_received"
       => \A readings \in ReadingLists :
            (/\ AllDicts(readings)
             /\ \E i \in 1..Len(readings) :
                  Unannounced(_timeseries, readings[i])
             /\ DataReceivedCall(readings))
              => /\ ~ret'.raised
                 /\ DOMAIN _timeseries' = DOMAIN _timeseries
                 /\ \A i \in 1..Len(readings) :
                      Unannounced(_timeseries, readings[i])
                        => {row \in timeseries_data' :
                              row.timeseries_id = readings[i]["id"]}
                           = {row \in timeseries_data :
                                row.timeseries_id = readings[i]["id"]}
                 /\ \A i \in 1..Len(readings) :
                      (/\ Accepted(_timeseries, readings[i])
                       /\ LastOfSensor(_timeseries, readings, i))
                        => /\ _timeseries'[readings[i]["id"]].value
                                = ReadingValue(readings[i])
                           /\ _timeseries'[readings[i]["id"]].timestamp
                                = readings[i]["ts"]
                           /\ (ReadingValue(readings[i]) # NULL /\ ~ret'.logged)
                                => Row(readings[i]["id"], readings[i]["ts"][1],
                                       FloatValue(ReadingValue(readings[i])))
                                     \in timeseries_data']_vars

\* a call that stored the reading of the known sensor while the other
\* sensor, whose readings arrive too, has neither a holder nor a row
C22_Witness ==
  /\ ret.op = "_on_data_received"
  /\ ~ret.raised
  /\ ~ret.logged
  /\ DOMAIN _timeseries = {"patio_temp"}
  /\ _timeseries["patio_temp"].value = Num(12)
  /\ _timeseries["patio_temp"].timestamp = <<1>>
  /\ timeseries_data = {Row("patio_temp", 1, Num(12))}

(***************************************************************************)
(* C24.  Discovered sensors and the table external_timeseries.             *)
(***************************************************************************)
\* C24: every sensor that the manager has made a holder for is registered
\* as an external series: the table external_timeseries, which
\* get_external_timeseries and list_external_timeseries read, holds a row
\* with the sensor's id
C24_DiscoveredIsExternal ==
  \A sensor_id \in DOMAIN _timeseries :
    Existed(external_timeseries, sensor_id)

(***************************************************************************)
(* C23.  Discovery of a sensor that the manager already knows.             *)
(***************************************************************************)
\* no id is twice in the list of series
Registered_Once(list) ==
  \A i \in 1..Len(list) : \A j \in 1..Len(list) :
    list[i] = list[j] => i = j

\* C23: discovery is idempotent per id, whichever way the threads of two
\* connections interleave: no step of _on_sensors_discovered changes the
\* holder of an id that the dict holds (its value, timestamp and metadata
\* stay), no step of any thread removes a holder, replaces it by another
\* or changes its metadata, and no id is registered twice in TIMESERIES
C23_DiscoveryIdempotent ==
  [][/\ \A sensor_id \in DOMAIN _timeseries :
          /\ sensor_id \in DOMAIN _timeseries'
          /\ _timeseries'[sensor_id].gateway_id
               = _timeseries[sensor_id].gateway_id
          /\ _timeseries'[sensor_id].name = _timeseries[sensor_id].name
          /\ (\E t \in Conns : DiscoveredStep(t))
               => _timeseries'[sensor_id] = _timeseries[sensor_id]
     /\ Registered_Once(TIMESERIES')]_vars

\* both connections are in _on_sensors_discovered for the same sensor: one
\* holds the lock and found the sensor known, with a value that a reading
\* has cached, while the other waits for the lock
C23_Witness ==
  /\ op["conn_a"].method = "_on_sensors_discovered"
  /\ op["conn_b"].method = "_on_sensors_discovered"
  /\ pc["conn_a"] = "with_lock"
  /\ pc["conn_b"] = "unlock"
  /\ _lock[Manager] = "conn_b"
  /\ ItemId(op["conn_a"]) = "patio_temp"
  /\ ItemId(op["conn_b"]) = "patio_temp"
  /\ "patio_temp" \in DOMAIN _timeseries
  /\ _timeseries["patio_temp"].gateway_id = "gw_a"
  /\ _timeseries["patio_temp"].value = Num(12)

(***************************************************************************)
(* C30.  The order in which the manager's threads take locks.              *)
(***************************************************************************)
\* the thread that holds the lock which thread t is about to acquire; Free
\* when nobody holds it or t is not at an acquire
HolderOfAwaited(t) ==
  CASE pc[t] = "with_lock" -> _lock[Manager]
    [] pc[t] = "update" -> _lock[ItemId(op[t])]
    [] pc[t] = "value_lock" -> _lock[TIMESERIES[op[t].i]]
    [] pc[t] = "insert" -> write_lock[LegacyStore]
    [] OTHER -> Free

\* every thread of D waits for a lock that a thread of D holds
Deadlocked(D) == D # {} /\ \A t \in D : HolderOfAwaited(t) \in D

\* thread t is at the Store's lock: about to acquire it, or holding it
AtStoreLock(t) == pc[t] \in {"insert", "inserting"}

\* C30: a thread that acquires, waits for or holds the Store's lock holds
\* neither the manager's lock nor a holder's lock; a thread that waits for
\* the manager's lock or a holder's lock never waits for a thread that is at
\* the Store's lock; and no set of threads running discovery callbacks,
\* data callbacks, current-value reads and Store writes is deadlocked
C30_CacheLockNotHeldAtStore ==
  /\ \A t \in ManagerThreads :
       AtStoreLock(t) => \A owner \in LockOwners : _lock[owner] # t
  /\ \A t \in ManagerThreads :
       (pc[t] \in {"with_lock", "update", "value_lock"}
          /\ HolderOfAwaited(t) # Free)
         => ~AtStoreLock(HolderOfAwaited(t))
  /\ \A D \in SUBSET ManagerThreads : ~Deadlocked(D)

\* one connection writes its batch under the Store's lock, the other waits
\* for that lock with its batch queued, and the reader holds a holder's lock
C30_Witness ==
  /\ pc["conn_a"] = "insert"
  /\ pc["conn_b"] = "inserting"
  /\ write_lock[LegacyStore] = "conn_b"
  /\ pc[Reader] = "value"
  /\ _lock["patio_temp"] = Reader
  /\ _lock[Manager] = Free

(***************************************************************************)
(* C29.  A Store write that fails in the data callback.                    *)
(***************************************************************************)
\* C29: when insert_datapoints_batch raises for the readings of a data
\* message, _on_data_received logs the error and returns: the table is as
\* it was before the message (the batch is dropped, nothing of it is kept
\* for a later write), the holders have the readings' values, and the
\* connection thread is at the head of the streaming loop again with its
\* socket, with no exception, ready for the next message
C29_FailedWriteDropped ==
  [][\A r \in RecvOutcomes, readings \in StreamedReadings, fails \in BOOLEAN :
       LET loop == ReceivedLoop(_timeseries, << >>, readings, 1)
       IN  (/\ ManagedStreamPass(r, readings, fails)
            /\ StreamCheck(r) = "callback"
            /\ ~loop.raised
            /\ loop.datapoints # << >>
            /\ WriteFailed(timeseries_data, loop.datapoints, 1, fails))
             => /\ ret'.logged
                /\ ~ret'.raised
                /\ timeseries_data' = timeseries_data
                /\ _timeseries' = loop.cache
                /\ gw_pc' = "stream"
                /\ exc' = "none"
                /\ socket' = socket
                /\ running' = running]_vars

\* the connection is streaming after a data message whose reading was cached
\* while its write failed and left no row
C29_Witness ==
  /\ gw_pc = "stream"
  /\ running
  /\ socket = "connected"
  /\ last_recv = Received(Line(TRUE, TRUE, TRUE, "data", 1))
  /\ ret.op = "_on_data_received"
  /\ ret.logged
  /\ ~ret.raised
  /\ timeseries_data = {}
  /\ "patio_temp" \in DOMAIN _timeseries
  /\ _timeseries["patio_temp"].value = Num(12)

(***************************************************************************)
(* C25.  An accessor that fails in a collection cycle.                     *)
(***************************************************************************)
\* the rows of one series
SeriesRows(table, sid) == {row \in table : row.timeseries_id = sid}

\* the clock readings that the Store's loop can see for these reads
CycleClocks(reads) ==
  ClockSequences(Len(CollectedSeries) - ReadErrors(reads))

\* the step is this cycle of the collector (the first two conjuncts follow
\* from the third and are tested first)
CycleCall(reads, nows, fails) ==
  /\ ret'.op = "_collection_loop"
  /\ ret'.read_errors = ReadErrors(reads)
  /\ CollectionCycle(reads, nows, fails)

\* the step is a cycle of the collector
CycleReturns ==
  /\ pc["collector"] = "cycle"
  /\ pc'["collector"] = "sleep"
  /\ ret'.op = "_collection_loop"

\* C25: in a cycle of the collector in which a series' accessor raises,
\* that series gets no row, every series whose accessor returned has its
\* value in a row stamped by the Store's clock (when the Store takes the
\* write), and the thread goes on to the sleep that precedes the next cycle
C25_AccessorFailureSkipsSeries ==
  [][(CycleReturns /\ ret'.read_errors > 0)
       => \A reads \in SeriesReads :
            ret'.read_errors = ReadErrors(reads)
              => \A fails \in BOOLEAN :
                   \A nows \in CycleClocks(reads) :
                     CycleCall(reads, nows, fails)
                       => /\ pc'["collector"] = "sleep"
                          /\ \A i \in DOMAIN reads :
                               IF reads[i].raised
                               THEN SeriesRows(timeseries_data',
                                               CollectedSeries[i])
                                      = SeriesRows(timeseries_data,
                                                   CollectedSeries[i])
                               ELSE ~ret'.printed
                                      => \E k \in DOMAIN nows :
                                           Row(CollectedSeries[i], nows[k],
                                               FloatValue(reads[i].value))
                                             \in timeseries_data']_vars

\* after a cycle in which one accessor raised, the other series' value is
\* stored and the thread sleeps
C25_Witness ==
  /\ ret.op = "_collection_loop"
  /\ ret.read_errors = 1
  /\ ~ret.printed
  /\ pc["collector"] = "sleep"
  /\ timeseries_data = {Row("cpu_usage", 1, Num(10))}

(***************************************************************************)
(* C26.  The timestamps of the rows of one collection cycle.               *)
(***************************************************************************)
\* C26: the values read in one cycle of the collector are written by one
\* call of insert_datapoints_batch and stored with one and the same
\* timestamp
C26_OneCollectionTimestamp ==
  [][CycleReturns
       => \A reads \in SeriesReads, fails \in BOOLEAN :
            \A nows \in CycleClocks(reads) :
              CycleCall(reads, nows, fails)
                => \A r1 \in timeseries_data' \ timeseries_data :
                     \A r2 \in timeseries_data' \ timeseries_data :
                       r1.timestamp = r2.timestamp]_vars

(***************************************************************************)
(* C27.  collect_data_now beside the collector's cycle.                    *)
(***************************************************************************)
\* the step is this request to collect_data_now (the first two conjuncts
\* follow from the third and are tested first)
CollectNowCall(reads, now, fails) ==
  /\ ret'.op = "collect_data_now"
  /\ ret'.status = 200
       => /\ ret'.timestamp = now
          /\ ret'.count =
               Len(CollectNowLoop(<< >>, CollectedSeries, reads, now, 1))
  /\ CollectDataNow(reads, now, fails)

\* C27: a request to collect_data_now reads every series once and leaves
\* the collector thread where it is; when the Store takes the write, every
\* series whose read is a value has a row with that value at the request's
\* one timestamp, no other row is written, a series whose read is None or
\* raises keeps its rows, and the count returned is the number of rows;
\* a cycle of the collector stores a row with a null value for a series
\* whose read is None
C27_CollectNowOmitsNull ==
  [][/\ ret'.op = "collect_data_now"
          => \A now \in Timestamps :
               (ret'.status = 200 => ret'.timestamp = now)
                 => \A reads \in SeriesReads, fails \in BOOLEAN :
                      CollectNowCall(reads, now, fails)
                        => /\ pc' = pc
                           /\ ret'.status = 200
                                => /\ \A i \in DOMAIN reads :
                                        IF /\ ~reads[i].raised
                                           /\ reads[i].value # NULL
                                        THEN Row(CollectedSeries[i], now,
                                                 FloatValue(reads[i].value))
                                               \in timeseries_data'
                                        ELSE SeriesRows(timeseries_data',
                                                        CollectedSeries[i])
                                               = SeriesRows(
                                                   timeseries_data,
                                                   CollectedSeries[i])
                                   /\ \A row \in
                                        timeseries_data' \ timeseries_data :
                                        row.timestamp = now
                                   /\ ret'.count =
                                        Cardinality(
                                          {i \in DOMAIN reads :
                                             /\ ~reads[i].raised
                                             /\ reads[i].value # NULL})
     /\ (CycleReturns /\ ~ret'.printed)
          => \A reads \in SeriesReads :
               (/\ ret'.read_errors = ReadErrors(reads)
                /\ \E i \in DOMAIN reads :
                     ~reads[i].raised /\ reads[i].value = NULL)
                 => \A fails \in BOOLEAN :
                      \A nows \in CycleClocks(reads) :
                        CycleCall(reads, nows, fails)
                          => \A i \in DOMAIN reads :
                               (~reads[i].raised /\ reads[i].value = NULL)
                                 => \E k \in DOMAIN nows :
                                      Row(CollectedSeries[i], nows[k], NULL)
                                        \in timeseries_data']_vars

\* a request stored the one value it read, beside the null row that a cycle
\* of the collector stored
C27_Witness ==
  /\ ret.op = "collect_data_now"
  /\ ret.status = 200
  /\ ret.count = 1
  /\ ret.timestamp = 2
  /\ timeseries_data = {Row("cpu_temperature", 1, NULL),
                        Row("cpu_usage", 2, Num(10))}

(***************************************************************************)
(* C31.  The end of an epoch: close, wait, connect again.                  *)
(***************************************************************************)
\* where the thread is while an epoch lasts
EpochSteps == {"connect", "discover", "discover_recv", "subscribe", "stream"}

\* the thread holds a socket object that is open
SocketOpen == socket \in {"unconnected", "connected"}

\* C31: an epoch ends in the finally block only, which closes and forgets the
\* socket before anything else and sends the thread to its wait when the
\* connection is not stopped; the thread comes to a connect attempt after an
\* epoch only through that wait, which lasts reconnect_delay seconds every
\* time; and the thread holds no socket when it creates one, so that the
\* connection never has two open sockets
C31_CloseWaitReconnect ==
  /\ [](/\ gw_pc \in {"new", "loop", "connect", "sleep", "exited"}
             => socket = "none"
        /\ slept \in {0, reconnect_delay})
  /\ [][/\ gw_pc \in EpochSteps
             => gw_pc' \in EpochSteps \cup {"finally"}
        /\ (gw_pc = "finally" /\ gw_pc' # "finally")
             => /\ ~SocketOpen'
                /\ socket' = "none"
                /\ gw_pc' = IF running THEN "sleep" ELSE "loop"
        /\ (gw_pc # "loop" /\ gw_pc' = "loop")
             => \/ gw_pc = "new"
                \/ gw_pc = "finally" /\ ~running
                \/ gw_pc = "sleep" /\ slept' = reconnect_delay
        /\ gw_pc' = "connect" => gw_pc \in {"loop", "connect"}
        /\ gw_pc' = "sleep" => gw_pc \in {"finally", "sleep"}]_vars

\* the thread is connected again after an epoch that failed and the wait
C31_Witness ==
  /\ gw_pc = "discover"
  /\ socket = "connected"
  /\ slept = reconnect_delay
  /\ running

(***************************************************************************)
(* C32.  stop() ends the loop.                                             *)
(***************************************************************************)
\* stop() has been called on a connection that was started
Stopped == ~running /\ gw_pc # "new"

\* C32: once stop() has been called, wherever the thread was (at the loop
\* test, connecting, in the discovery round trip, streaming, in the finally
\* block or in the reconnect wait), the thread leaves _run for good with the
\* socket closed and forgotten
C32_StopEndsLoop ==
  /\ \A at \in {"loop", "connect", "discover", "discover_recv",
                "subscribe", "stream", "finally", "sleep"} :
       (Stopped /\ gw_pc = at) ~> (gw_pc = "exited" /\ socket = "none")
  /\ [](gw_pc = "exited" => [](gw_pc = "exited" /\ socket = "none"))

\* the thread has left _run after a stop() that came while it was streaming
\* and had just received data
C32_Witness ==
  /\ gw_pc = "exited"
  /\ ~running
  /\ socket = "none"
  /\ epoch_log = Append(StreamingEpoch, "data")
  /\ exc = "none"
  /\ slept = 0

(***************************************************************************)
(* C33.  The point that each bucket emits.  Indices are the source's, from *)
(* 0; bucket_size is (n - 2) / (threshold - 2).                            *)
(***************************************************************************)
\* the call reduced its input
DownsamplingApplied ==
  /\ ret.op = "_downsample_lttb"
  /\ ret.threshold >= 3
  /\ Len(ret.data) > ret.threshold

\* floor(i * bucket_size)
FloorOfBuckets(i, n, threshold) == (i * (n - 2)) \div (threshold - 2)

\* the indices of bucket i that are indices of the data
Candidates(i, n, threshold) ==
  {j \in 0..(n - 1) :
     /\ FloorOfBuckets(i, n, threshold) + 1 <= j
     /\ j < FloorOfBuckets(i + 1, n, threshold) + 1}

RECURSIVE TotalOver(_, _, _)
TotalOver(data, indices, field) ==
  IF indices = {} THEN 0
  ELSE LET j == CHOOSE k \in indices : TRUE
       IN  (IF field = "timestamp" THEN data[j + 1].timestamp
            ELSE ValueOrZero(data[j + 1]))
             + TotalOver(data, indices \ {j}, field)

\* the average point of the points at the indices, as sums and their number;
\* the last point of the data when there is none
AveragePoint(data, indices) ==
  IF indices = {}
  THEN [length |-> 1, sum_x |-> data[Len(data)].timestamp,
        sum_y |-> ValueOrZero(data[Len(data)])]
  ELSE [length |-> Cardinality(indices),
        sum_x |-> TotalOver(data, indices, "timestamp"),
        sum_y |-> TotalOver(data, indices, "value")]

\* C33: when the call reduces its input, the point emitted for slot i is a
\* point of bucket i whose triangle with the point emitted before it and the
\* average point of bucket i + 1 (null counted as 0) is at least as large as
\* that of every point of the bucket and larger than that of every earlier
\* point of the bucket
C33_LargestTriangleFirstWins ==
  DownsamplingApplied =>
    LET data == ret.data
        n == Len(ret.data)
        threshold == ret.threshold
    IN  \A i \in 0..(threshold - 3) :
          LET a == ret.sampled[i + 1]
              avg == AveragePoint(data, Candidates(i + 1, n, threshold))
              bucket == Candidates(i, n, threshold)
          IN  \E j \in bucket :
                /\ ret.sampled[i + 2] = data[j + 1]
                /\ \A k \in bucket :
                     /\ Area(a, data[k + 1], avg) <= Area(a, data[j + 1], avg)
                     /\ k < j =>
                          Area(a, data[k + 1], avg) < Area(a, data[j + 1], avg)

\* a call whose data holds a null value and in which two points of one
\* bucket make triangles of the same, positive area: the first is emitted
C33_Witness ==
  /\ DownsamplingApplied
  /\ \E p \in 1..Len(ret.data) : ret.data[p].value = NULL
  /\ LET data == ret.data
         n == Len(ret.data)
         threshold == ret.threshold
     IN  \E i \in 0..(threshold - 3) :
           LET a == ret.sampled[i + 1]
               avg == AveragePoint(data, Candidates(i + 1, n, threshold))
               bucket == Candidates(i, n, threshold)
           IN  \E j \in bucket, k \in bucket :
                 /\ j < k
                 /\ ret.sampled[i + 2] = data[j + 1]
                 /\ Area(a, data[j + 1], avg) > 0
                 /\ Area(a, data[k + 1], avg) = Area(a, data[j + 1], avg)

(***************************************************************************)
(* C34.  The retry wrapper.                                                *)
(***************************************************************************)
\* the wrapper has returned or raised
RetryEnded == ret.op = "retry_on_locked" /\ ret.outcome # "none"

LockedError == Raises("OperationalError", "database is locked")

\* C34: the wrapped function is called at most MAX_RETRIES times; every call
\* but the latest ended with the error 'database is locked' and was followed
\* by a wait of RETRY_DELAY times its attempt number, so each wait is longer
\* than the one before; the wrapper returns what the first call that did not
\* raise returned, raises any other error at the call that raised it, and
\* raises the locked error of call MAX_RETRIES when every call was locked
C34_BoundedRetry ==
  ret.op = "retry_on_locked" =>
    /\ ret.calls <= MAX_RETRIES
    /\ attempt <= MAX_RETRIES
    /\ \A k \in 1..(ret.calls - 1) : ret.func[k] = LockedError
    /\ Len(ret.slept) <= ret.calls
    /\ \A k \in 1..Len(ret.slept) :
         /\ ret.slept[k] = RETRY_DELAY * k
         /\ ret.func[k] = LockedError
         /\ k > 1 => ret.slept[k] > ret.slept[k - 1]
    /\ RetryEnded =>
         /\ Len(ret.slept) = ret.calls - 1
         /\ ret.result = <<ret.func[ret.calls]>>
         /\ ret.outcome = "returned" <=> ret.func[ret.calls].kind = "return"
         /\ ret.outcome = "raised" =>
              \/ ret.func[ret.calls] # LockedError
              \/ ret.calls = MAX_RETRIES
    /\ (pc[Doctor] = "idle" /\ ret.calls > 0) => RetryEnded

\* a call that returned at its third attempt, after waits of 2 and 4 seconds
C34_Witness ==
  /\ RetryEnded
  /\ ret.outcome = "returned"
  /\ ret.calls = 3
  /\ ret.slept = <<RETRY_DELAY, 2 * RETRY_DELAY>>

(***************************************************************************)
(* C35.  The emitted points are a subsequence of the input.                *)
(***************************************************************************)
\* the positions (from 1) at which a point stands in the data
PositionsOf(data, point) == {p \in 1..Len(data) : data[p] = point}

\* C35: when the call reduces its input, the threshold - 2 buckets are
\* non-empty, lie between the first and the last point and each ends before
\* the next begins; every emitted point stands at exactly one position of the
\* input; the point of slot i stands in bucket i; and the positions and the
\* timestamps of the output ascend strictly
C35_EmittedSubsequence ==
  DownsamplingApplied =>
    LET data == ret.data
        n == Len(ret.data)
        threshold == ret.threshold
        sampled == ret.sampled
    IN  /\ \A i \in 0..(threshold - 3) :
             /\ Candidates(i, n, threshold) # {}
             /\ Candidates(i, n, threshold) \subseteq 1..(n - 2)
             /\ \A j \in Candidates(i, n, threshold) :
                  \A k \in Candidates(i + 1, n, threshold) : j < k
        /\ \A s \in 1..Len(sampled) :
             Cardinality(PositionsOf(data, sampled[s])) = 1
        /\ \A i \in 0..(threshold - 3) :
             \E j \in Candidates(i, n, threshold) :
               PositionsOf(data, sampled[i + 2]) = {j + 1}
        /\ \A s \in 1..(Len(sampled) - 1) :
             /\ \A p \in PositionsOf(data, sampled[s]) :
                  \A q \in PositionsOf(data, sampled[s + 1]) : p < q
             /\ sampled[s].timestamp < sampled[s + 1].timestamp

\* five points reduced to four: the second bucket holds two points and emits
\* the later one
C35_Witness ==
  /\ DownsamplingApplied
  /\ Len(ret.data) = 5
  /\ ret.threshold = 4
  /\ Candidates(1, 5, 4) = {2, 3}
  /\ ret.sampled =
       <<ret.data[1], ret.data[2], ret.data[4], ret.data[5]>>

(***************************************************************************)
(* C36.  Every entry query_minmax_batch returns has min <= oldest <= max,  *)
(* its oldest value being a value of the rows its min and max were taken   *)
(* from, also when an insert or a delete of that series commits while the  *)
(* query is running.                                                       *)
(***************************************************************************)
C36_OldestWithinMinMax ==
  ret.op = "query_minmax_batch" =>
    \A ts_id \in DOMAIN ret.results :
      LET e == ret.results[ts_id]
      IN  /\ e.oldest # NULL
          /\ e.min[1] <= e.oldest[1]
          /\ e.oldest[1] <= e.max[1]

(***************************************************************************)
(* C37.  No reading of a gateway is stored under the id of a built-in      *)
(* series: a data callback leaves the rows of every built-in id as they    *)
(* are, and the callbacks leave the list's entry of the built-in series    *)
(* as it is.                                                               *)
(***************************************************************************)
BuiltinRows(table) == {r \in table : r.timeseries_id \in BuiltinIds}

C37_NoGatewayRowUnderBuiltinId ==
  [][/\ ret'.op = "_on_data_received" =>
          BuiltinRows(timeseries_data') = BuiltinRows(timeseries_data)
     /\ ret'.op \in {"_on_data_received", "_on_sensors_discovered"} =>
          /\ Len(TIMESERIES') >= Len(TIMESERIES)
          /\ SubSeq(TIMESERIES', 1, Len(TIMESERIES)) = TIMESERIES
          /\ \A i \in 1..Len(TIMESERIES') :
               TIMESERIES'[i] \in BuiltinIds => i <= Len(TIMESERIES)]_vars

(***************************************************************************)
(* C38.  While the collector is running its loop never terminates: what a  *)
(* cycle raises, a failed read of the sampling interval in the first cycle *)
(* included, is caught, and the thread goes on to its sleep and its next   *)
(* cycle.  No thread of the loop ends by an exception, and the thread of   *)
(* a running collector has not ended.                                      *)
(***************************************************************************)
C38_LoopSurvivesErrors ==
  \A t \in LoopThreads :
    /\ loops[t].pc # "died"
    /\ loops[t].pc = "ended" =>
         (~collector.running \/ collector.thread # Num(t))

(***************************************************************************)
(* C39.  At most one collection loop is active, whatever start() and       *)
(* stop() calls are made: a thread is started only when the collector is   *)
(* not running, and a cycle is performed only by the thread that the       *)
(* latest start() created.                                                 *)
(***************************************************************************)
C39_OneActiveLoop ==
  [][\A t \in LoopThreads :
       /\ (loops[t].pc = "new" /\ loops'[t].pc # "new")
            => ~collector.running
       /\ (loops[t].pc = "try" /\ loops'[t].pc = "sleep")
            => collector.thread = Num(t)]_vars

(***************************************************************************)
(* C40.  For each automation at most one script execution is in progress   *)
(* at any time: whatever the interleaving of run requests, no two          *)
(* run_script threads of the same automation are between their start and   *)
(* the end of their script.                                                *)
(***************************************************************************)
Executing(name) ==
  {r \in RunRequests :
     /\ runs[r].automation_name = name
     /\ runs[r].pc \in {"command", "process"}}

C40_OneExecutionPerAutomation ==
  \A name \in Automations : Cardinality(Executing(name)) <= 1

====
